---- MODULE Spec2Model ----
(***************************************************************************)
(* Fund-flow tracer of scripts/protocol_analyzer.py: trace_flow, the       *)
(* recursive traversal, and find_beneficiaries, its wrapper with the       *)
(* reconciling step.  The recursion is modelled as an explicit call stack; *)
(* Python's dictionaries and sets are objects on a heap, so that           *)
(* `x = x or defaultdict(Decimal)` (a NEW object whenever the argument is  *)
(* empty) and the aliasing of a returned map with the caller's map are     *)
(* modelled as the interpreter performs them.                              *)
(* Addresses are modelled in their normalised (lower-case) form, amounts   *)
(* as exact naturals, timestamps as naturals with 0 for a missing or       *)
(* unparsable timeStamp.  A stored value that is no decimal numeral is     *)
(* Unparsable; an exception is raised where the code parses it outside a   *)
(* try, and leaves every frame of trace_flow and find_beneficiaries.       *)
(* The provenance sets recorded_edges, processed_disperse_payouts and      *)
(* beneficiary_unique_txs are never read by the traversal and are not      *)
(* modelled.                                                               *)
(***************************************************************************)
EXTENDS Integers, Sequences, FiniteSets, TLC

VARIABLES
    txs,          \* selected_transactions_coll: the transaction store, in store order
    payouts,      \* disperse_coll: the payout store, in store order
    root,         \* protocol_recipient passed to find_beneficiaries
    pc,           \* position of find_beneficiaries
    stack,        \* call stack of trace_flow frames, innermost last
    benH,         \* heap of beneficiaries dictionaries
    intH,         \* heap of intermediaries dictionaries
    retH,         \* heap of returned_amounts dictionaries
    armH,         \* heap of amount_received_map dictionaries
    visH,         \* heap of visited sets
    res,          \* the tuple returned by the top-level trace_flow call
    entered,      \* history: the addresses trace_flow was called with, in this call's order
    rpc,          \* whether the node and the explorer answer the lookups of this run
    exc,          \* the exception find_beneficiaries ended with, "" for none
    call,         \* the number of the current call of find_beneficiaries
    first_call,   \* history: the ledgers the first call returned, << >> before that
    files,        \* the CSV files of the working directory, << >> for a file not there
    merkl_export_performed,  \* the flag export_to_csv sets once it has written its file
    csv,          \* the rows of the CSV files the /analyze fallback reads
    response,     \* what the /analyze endpoint answers with, << >> before that
    request       \* the protocol_addr of the request to /analyze, as its characters

\* what the traversal itself never writes
server == <<csv, response, request>>
outside == <<rpc, exc, call, first_call, files, merkl_export_performed, server>>

vars == <<txs, payouts, root, pc, stack, benH, intH, retH, armH, visH, res, entered, outside>>

-----------------------------------------------------------------------------
(* Configuration *)

RETURN_ADDRESS == "r"
STOP_ADDRESS == {"s1", "s2"}
\* the accounts for which is_disperse_contract answers True
DisperseContracts == {"x"}
\* total_outgoing_amt > Decimal("500")
ThresholdAmount == 500
\* len(unique_outgoing_addresses) > 4
ThresholdDestinations == 4
\* datetime.min, the sort key of a transaction without a usable timeStamp
datetime_min == 0
\* a stored value that is no decimal numeral, such as "abc"
Unparsable == -1

-----------------------------------------------------------------------------
(* Bounds *)

\* most outgoing transactions of the fan-out account
MaxFan == 5
\* most transactions of a store drawn from TxPool
MaxTx == 4
\* most distinct payout records of a store drawn from PayPool
MaxPay == 2
\* most times the payout store returns one record
MaxDup == 2
\* most consecutive calls of find_beneficiaries
MaxCalls == 2
\* most rows of the combined beneficiaries file the fallback reads
MaxRows == 2

-----------------------------------------------------------------------------
(* Dictionaries *)

EmptyDict == [k \in {} |-> 0]

Keys(d) == DOMAIN d

\* defaultdict(Decimal).__getitem__ for reading: a missing key reads as Decimal(0)
Get(d, k) == IF k \in DOMAIN d THEN d[k] ELSE 0

Put(d, k, v) == [x \in (DOMAIN d) \cup {k} |-> IF x = k THEN v ELSE d[x]]

\* d[k] += v on a defaultdict(Decimal)
Add(d, k, v) == Put(d, k, Get(d, k) + v)

\* del d[k] for every k in ks
Del(d, ks) == [x \in (DOMAIN d) \ ks |-> d[x]]

RECURSIVE SumOver(_, _)
SumOver(d, ks) ==
    IF ks = {} THEN 0
    ELSE LET k == CHOOSE x \in ks : TRUE IN d[k] + SumOver(d, ks \ {k})

\* sum(d.values())
SumDict(d) == SumOver(d, DOMAIN d)

Range(s) == {s[i] : i \in 1..Len(s)}

-----------------------------------------------------------------------------
(* Utility helpers *)

\* parse_iso: << >> stands for None, <<t>> for the datetime t
parse_iso(ts) == IF ts = 0 THEN << >> ELSE <<ts>>

\* parse_iso(x.get("timeStamp") or "") or datetime.min
SortKey(tx) ==
    LET p == parse_iso(tx.timeStamp) IN IF p = << >> THEN datetime_min ELSE p[1]

\* Decimal(str(v)) succeeds
IsDecimal(v) == v # Unparsable

\* Decimal(str(tx.get("value", 0) or "0")), where it succeeds
AmountOf(tx) == tx.value

RECURSIVE sum_values(_)
sum_values(s) == IF s = << >> THEN 0 ELSE AmountOf(Head(s)) + sum_values(Tail(s))

RECURSIVE InsertSorted(_, _)
InsertSorted(s, tx) ==
    IF s = << >> THEN <<tx>>
    ELSE IF SortKey(tx) < SortKey(Head(s)) THEN <<tx>> \o s
    ELSE <<Head(s)>> \o InsertSorted(Tail(s), tx)

\* sorted(s, key=SortKey): stable, equal keys keep their order
RECURSIVE SortedByTime(_)
SortedByTime(s) ==
    IF s = << >> THEN << >>
    ELSE InsertSorted(SortedByTime(SubSeq(s, 1, Len(s) - 1)), s[Len(s)])

\* str.lower() on the addresses and hashes of the stores
Lower(str) == IF str = "D" THEN "d" ELSE str

\* {**tx, "from": ....lower(), "to": ....lower(), "txHash": ....lower()}
Normalised(tx) ==
    [tx EXCEPT !.from = Lower(@), !.to = Lower(@), !.txHash = Lower(@)]

\* selected_transactions_coll.find({key: address}), each document normalised
get_transactions(address, incoming) ==
    LET found == IF incoming THEN SelectSeq(txs, LAMBDA tx : tx.to = Lower(address))
                 ELSE SelectSeq(txs, LAMBDA tx : tx.from = Lower(address))
    IN [i \in 1..Len(found) |-> Normalised(found[i])]

\* w3.eth.get_code(checksum) stands outside every try: a failed lookup raises
get_code_raises == rpc.get_code = "fails"

\* None (<< >>): on a failed lookup, and for every account of the stores,
\* none of them being a proxy
resolve_eip1967_implementation(proxy_addr) == << >>

\* None (<< >>) on a failed request, else the source of the contract
get_verified_source(address) ==
    IF rpc.getsourcecode = "fails" THEN << >> ELSE <<address>>

\* the answer of is_disperse_contract when get_code answers
is_disperse_contract(address) ==
    LET impl_addr == resolve_eip1967_implementation(address)
        target_addr == IF impl_addr # << >> THEN impl_addr[1] ELSE address
        src_info == get_verified_source(target_addr)
    IN src_info # << >> /\ src_info[1] \in DisperseContracts


-----------------------------------------------------------------------------
(* Disperse resolution: the payout rows of a disperse contract *)

\* {tx.get("txHash") for tx in incoming_txs if tx.get("txHash")}
incoming_hashes_lower(incoming_txs) ==
    {tx.txHash : tx \in Range(incoming_txs)} \ {""}

\* mutant: the payout query does not filter on the incoming hashes
matched_rows_AnyHash(addr_l, hashes) ==
    LET found == SelectSeq(payouts, LAMBDA row : row.from = addr_l)
    IN [i \in 1..Len(found) |-> [found[i] EXCEPT !.from = Lower(@), !.to = Lower(@),
                                                   !.txHash = Lower(@)]]

\* disperse_coll.find({"from": addr_l, "txHash": {"$in": [...]}})
matched_rows(addr_l, hashes) ==
    IF hashes = {} THEN << >>
    ELSE LET found == SelectSeq(payouts, LAMBDA row : row.from = addr_l /\ row.txHash \in hashes)
         IN [i \in 1..Len(found) |-> Normalised(found[i])]

\* str(row.get("value", 0) or "0"): the decimal numeral of the stored amount
value_str(row) == row.value

\* str(row.get("timeStamp") or ""): 0 stands for the empty string
timestamp_str(row) == row.timeStamp

\* mutant: the record identifier leaves the timestamp out
record_id_NoTimestamp(row) == <<row.txHash, row.to, value_str(row)>>

\* f"{txh_db}|{rec_addr}|{value_str}|{timestamp_str}"
record_id(row) == <<row.txHash, row.to, value_str(row), timestamp_str(row)>>

\* the loop over matched_rows that fills seen_records and deduplicated_rows
RECURSIVE Deduplicate(_, _)
Deduplicate(rows, seen_records) ==
    IF rows = << >> THEN << >>
    ELSE LET row == Head(rows) IN
         IF row.to = "" \/ record_id(row) \in seen_records
         THEN Deduplicate(Tail(rows), seen_records)
         ELSE <<row>> \o Deduplicate(Tail(rows), seen_records \cup {record_id(row)})

deduplicated_rows(addr_l) ==
    Deduplicate(matched_rows(addr_l, incoming_hashes_lower(get_transactions(addr_l, TRUE))), {})

\* try: Decimal(value_str) except: Decimal("0")
raw_amt(row) == IF IsDecimal(value_str(row)) THEN value_str(row) ELSE 0

\* mutant: the return address is not told apart from the beneficiaries
CountsAsBeneficiary_ReturnIncluded(row) == raw_amt(row) > 0 /\ row.to \notin STOP_ADDRESS

\* mutant: `elif rec_addr not in STOP_ADDRESS` became `else`
CountsAsBeneficiary_StopIncluded(row) == raw_amt(row) > 0 /\ row.to # RETURN_ADDRESS

\* rows counted for the beneficiary bucket: non-zero, not the return address, not a stop address
CountsAsBeneficiary(row) ==
    raw_amt(row) > 0 /\ row.to # RETURN_ADDRESS /\ row.to \notin STOP_ADDRESS

\* rows counted for the return bucket
CountsAsReturn(row) == raw_amt(row) > 0 /\ row.to = RETURN_ADDRESS

RECURSIVE beneficiary_sums(_)
beneficiary_sums(rows) ==
    IF rows = << >> THEN EmptyDict
    ELSE LET row == rows[Len(rows)]
             rest == beneficiary_sums(SubSeq(rows, 1, Len(rows) - 1))
         IN IF CountsAsBeneficiary(row) THEN Add(rest, row.to, raw_amt(row)) ELSE rest

RECURSIVE return_sums(_)
return_sums(rows) ==
    IF rows = << >> THEN EmptyDict
    ELSE LET row == rows[Len(rows)]
             rest == return_sums(SubSeq(rows, 1, Len(rows) - 1))
         IN IF CountsAsReturn(row) THEN Add(rest, row.to, raw_amt(row)) ELSE rest

\* mutant: the sums are added to the entries already there
SetAll_Adding(d, sums) ==
    [k \in (DOMAIN d) \cup (DOMAIN sums) |-> Get(d, k) + Get(sums, k)]

\* for rec_addr, total_amt in sums.items(): d[rec_addr] = total_amt
SetAll(d, sums) ==
    [k \in (DOMAIN d) \cup (DOMAIN sums) |-> IF k \in DOMAIN sums THEN sums[k] ELSE d[k]]

\* for rec_addr, total_amt in sums.items(): d[rec_addr] += total_amt
AddAll(d, sums) ==
    [k \in (DOMAIN d) \cup (DOMAIN sums) |-> Get(d, k) + Get(sums, k)]

-----------------------------------------------------------------------------
(* Ordinary accounts: balance limiting and classification *)

\* parse_iso of the timeStamp of the first incoming transaction in sorted order
earliest_dt(incoming_txs) == parse_iso(SortedByTime(incoming_txs)[1].timeStamp)

outgoing_after(addr_l) ==
    LET e == earliest_dt(get_transactions(addr_l, TRUE))
        outgoing_all == get_transactions(addr_l, FALSE)
    IN IF e # << >> THEN SelectSeq(outgoing_all, LAMBDA tx : SortKey(tx) >= e[1])
       ELSE outgoing_all

\* mutant: the loop passes over a transaction over the cap and goes on
RECURSIVE LimitPrefix_Skips(_, _, _)
LimitPrefix_Skips(s, cumulative, total_incoming_amt) ==
    IF s = << >> THEN << >>
    ELSE IF cumulative + AmountOf(Head(s)) <= total_incoming_amt
         THEN <<Head(s)>> \o LimitPrefix_Skips(Tail(s), cumulative + AmountOf(Head(s)),
                                               total_incoming_amt)
         ELSE LimitPrefix_Skips(Tail(s), cumulative, total_incoming_amt)

\* the loop that fills limited_outgoing and breaks at the first transaction over the cap
RECURSIVE LimitPrefix(_, _, _)
LimitPrefix(s, cumulative, total_incoming_amt) ==
    IF s = << >> THEN << >>
    ELSE IF cumulative + AmountOf(Head(s)) <= total_incoming_amt
         THEN <<Head(s)>> \o LimitPrefix(Tail(s), cumulative + AmountOf(Head(s)), total_incoming_amt)
         ELSE << >>

limited_outgoing(addr_l) ==
    LimitPrefix(SortedByTime(outgoing_after(addr_l)), 0, sum_values(get_transactions(addr_l, TRUE)))

\* the loop parses the value of every transaction it reaches, before comparing
RECURSIVE LimitRaises(_, _, _)
LimitRaises(s, cumulative, total_incoming_amt) ==
    IF s = << >> THEN FALSE
    ELSE IF ~IsDecimal(Head(s).value) THEN TRUE
    ELSE IF cumulative + AmountOf(Head(s)) <= total_incoming_amt
         THEN LimitRaises(Tail(s), cumulative + AmountOf(Head(s)), total_incoming_amt)
         ELSE FALSE

\* sum_values(incoming_txs) parses every value
IncomingParses(addr_l) ==
    LET incoming_txs == get_transactions(addr_l, TRUE)
    IN \A i \in 1..Len(incoming_txs) : IsDecimal(incoming_txs[i].value)

\* the limiting loop of addr_l meets a value that is no decimal numeral
LimitingRaises(addr_l) ==
    LimitRaises(SortedByTime(outgoing_after(addr_l)), 0, sum_values(get_transactions(addr_l, TRUE)))

unique_outgoing_addresses(limited) == {tx.to : tx \in Range(limited)} \ {""}

\* mutant: `>=` for `>` on the amount
is_intermediary_AtLeast(limited) ==
    sum_values(limited) >= ThresholdAmount
        \/ Cardinality(unique_outgoing_addresses(limited)) > ThresholdDestinations

is_intermediary(limited) ==
    sum_values(limited) > ThresholdAmount
        \/ Cardinality(unique_outgoing_addresses(limited)) > ThresholdDestinations

-----------------------------------------------------------------------------
(* Merging a child's beneficiaries into the caller's map.  b is the caller's *)
(* map and s the map the child returned; when both are one object, s = b.    *)

\* mutant: the root adds every value the child returned
RootMerged_Additive(b, s) ==
    [k \in (DOMAIN b) \cup (DOMAIN s) |-> Get(b, k) + Get(s, k)]

\* root: if k not in beneficiaries or beneficiaries[k] == 0: beneficiaries[k] += v
RootMerged(b, s) ==
    [k \in (DOMAIN b) \cup (DOMAIN s) |->
        IF k \in DOMAIN s /\ (k \notin DOMAIN b \/ b[k] = 0) THEN Get(b, k) + s[k] ELSE b[k]]

\* intermediary: beneficiaries[k] += v
IntMerged(b, s) ==
    [k \in (DOMAIN b) \cup (DOMAIN s) |-> Get(b, k) + Get(s, k)]


-----------------------------------------------------------------------------
(* The stores the traces run over *)

Tx(f, t, v, ts, h) == [from |-> f, to |-> t, value |-> v, timeStamp |-> ts, txHash |-> h]

RECURSIVE Repeat(_, _)
Repeat(s, n) == IF n = 0 THEN << >> ELSE s \o Repeat(s, n - 1)

\* Fan-out stores: the root a pays b once, b pays up to MaxFan leaves in turn;
\* the first, the middle and the last payment of b draw their values separately
LeafNames == <<"c", "d", "e", "f", "g", "h", "i", "j">>
FanHashes == <<"f1", "f2", "f3", "f4", "f5", "f6", "f7", "f8">>
FanVals == {100, 125, 126, 300, 600}

FanTxs(k, first, middle, last, repeat) ==
    <<Tx("a", "b", 1000, 1, "f0")>> \o
    [i \in 1..k |->
        Tx("b", IF repeat /\ i = k THEN LeafNames[1] ELSE LeafNames[i],
           IF i = 1 THEN first ELSE IF i = k THEN last ELSE middle, 1 + i, FanHashes[i])]

FanStores ==
    {[txs |-> FanTxs(k, first, middle, last, repeat), payouts |-> << >>, root |-> "a"]
        : k \in 0..MaxFan, first \in FanVals, middle \in FanVals, last \in FanVals,
          repeat \in BOOLEAN}

\* Pool stores: any at most MaxTx transactions of TxPool, in pool order.
\* The last one is stored with a mixed-case recipient.
TxPool == <<
    Tx("a", "b", 1000, 1, "h1"),
    Tx("a", "c", 300, 2, "h2"),
    Tx("a", "x", 1000, 3, "h3"),
    Tx("a", "r", 100, 4, "h4"),
    Tx("a", "r", 50, 5, "h5"),
    Tx("a", "s1", 500, 6, "h6"),
    Tx("a", "a", 700, 7, "h7"),
    Tx("b", "c", 600, 2, "h8"),
    Tx("b", "r", 200, 3, "h9"),
    Tx("b", "a", 600, 4, "h10"),
    Tx("b", "x", 400, 5, "h11"),
    Tx("b", "s2", 400, 6, "h12"),
    Tx("b", "b", 100, 7, "h13"),
    Tx("a", "D", 250, 8, "h14") >>

\* Payout records of the disperse contract x: for the payment h3 of the root,
\* for the payment h11 of b, and one for a hash that is no payment to x
PayPool == <<
    Tx("x", "c", 600, 3, "h3"),
    Tx("x", "r", 400, 3, "h3"),
    Tx("x", "s1", 100, 3, "h3"),
    Tx("x", "c", 600, 4, "h3"),
    Tx("x", "c", 500, 3, "h3"),
    Tx("x", "x", 50, 3, "h3"),
    Tx("x", "b", 250, 5, "h11"),
    Tx("x", "d", 70, 3, "h99"),
    Tx("x", "c", 600, 3, "h11") >>

\* the payout store of the pool stores
PoolPayouts == <<PayPool[1], PayPool[2], PayPool[1], PayPool[7]>>

PoolStores ==
    {[txs |-> SelectSeq(TxPool, LAMBDA t : t \in S), payouts |-> PoolPayouts, root |-> "a"]
        : S \in {T \in SUBSET Range(TxPool) : Cardinality(T) <= MaxTx}}

\* Disperse stores: a few paths to the disperse contract x, over any at most
\* MaxPay records of PayPool, each returned up to MaxDup times by the payout store
DisperseTxs == {
    <<TxPool[3]>>,
    <<TxPool[2], TxPool[3]>>,
    <<TxPool[3], Tx("a", "c", 300, 9, "h15")>>,
    <<TxPool[1], TxPool[8], TxPool[11]>>,
    <<TxPool[1], TxPool[3], TxPool[8], TxPool[11]>> }

DisperseStores ==
    {[txs |-> t, payouts |-> Repeat(SelectSeq(PayPool, LAMBDA row : row \in P), d), root |-> "a"]
        : t \in DisperseTxs,
          P \in {Q \in SUBSET Range(PayPool) : Cardinality(Q) <= MaxPay},
          d \in 1..MaxDup}

\* Stores whose protocol address is the return address or a stop address itself
SinkRootStores ==
    {[txs |-> <<Tx(a, "b", 100, 1, "h1")>>, payouts |-> << >>, root |-> a]
        : a \in {RETURN_ADDRESS} \cup STOP_ADDRESS}

\* Forwarding in circles: a pays b, b pays c, and any of c paying b back,
\* c paying the root, c paying itself and b paying itself
CycleExtras == <<
    Tx("c", "b", 400, 3, "y3"),
    Tx("c", "a", 200, 4, "y4"),
    Tx("c", "c", 50, 5, "y5"),
    Tx("b", "b", 100, 6, "y6") >>

CycleStores ==
    {[txs |-> <<Tx("a", "b", 1000, 1, "y1"), Tx("b", "c", 600, 2, "y2")>>
                \o SelectSeq(CycleExtras, LAMBDA t : t \in S),
      payouts |-> << >>, root |-> "a"] : S \in SUBSET Range(CycleExtras)}

\* Stores in which any of the transactions carries no usable timeStamp
UntimedBase == <<
    Tx("a", "b", 1000, 1, "u1"),
    Tx("a", "c", 300, 2, "u2"),
    Tx("b", "d", 600, 3, "u3"),
    Tx("b", "e", 300, 4, "u4"),
    Tx("e", "b", 100, 2, "u5") >>

UntimedStores ==
    {[txs |-> [i \in 1..Len(UntimedBase) |->
                  IF i \in S THEN [UntimedBase[i] EXCEPT !.timeStamp = 0] ELSE UntimedBase[i]],
      payouts |-> << >>, root |-> "a"] : S \in SUBSET (1..Len(UntimedBase))}

\* Stores in which one transaction, or any of the payout records, carries a
\* value that is no decimal numeral
MalformedBase == <<
    Tx("a", "b", 1000, 1, "m1"),
    Tx("a", "c", 300, 2, "m2"),
    Tx("e", "b", 50, 1, "m3"),
    Tx("b", "c", 600, 2, "m4"),
    Tx("b", "d", 300, 3, "m5"),
    Tx("b", "f", 200, 4, "m6"),
    Tx("b", "g", 10, 5, "m7") >>

MalformedStores ==
    {[txs |-> [MalformedBase EXCEPT ![i].value = Unparsable], payouts |-> << >>, root |-> "a"]
        : i \in 1..Len(MalformedBase)}
    \cup
    {[txs |-> <<TxPool[3]>>,
      payouts |-> [i \in 1..3 |-> IF i \in S THEN [PayPool[i] EXCEPT !.value = Unparsable]
                                   ELSE PayPool[i]],
      root |-> "a"] : S \in (SUBSET (1..3)) \ {{}}}

\* Stores traced while a lookup of the node or of the explorer fails
LookupStores == {
    [txs |-> <<TxPool[3]>>, payouts |-> <<PayPool[1], PayPool[2]>>, root |-> "a"],
    [txs |-> <<TxPool[1], TxPool[8]>>, payouts |-> << >>, root |-> "a"],
    [txs |-> <<TxPool[2]>>, payouts |-> << >>, root |-> "a"],
    [txs |-> <<TxPool[14]>>, payouts |-> << >>, root |-> "a"],
    [txs |-> <<TxPool[1], TxPool[8], TxPool[11]>>, payouts |-> <<PayPool[7]>>, root |-> "a"] }

\* Stores in which the transactions of an account carry equal timeStamps, or
\* none of the transactions carries one
TiedBase == <<
    Tx("a", "b", 1000, 1, "g1"),
    Tx("a", "c", 300, 1, "g2"),
    Tx("b", "c", 600, 2, "g3"),
    Tx("b", "d", 600, 2, "g4") >>

TiedStores ==
    {[txs |-> [i \in 1..Len(sub) |->
                  IF untimed THEN [sub[i] EXCEPT !.timeStamp = 0] ELSE sub[i]],
      payouts |-> << >>, root |-> "a"]
        : sub \in {SelectSeq(TiedBase, LAMBDA t : t \in S) : S \in SUBSET Range(TiedBase)},
          untimed \in BOOLEAN}

Stores ==
    FanStores \cup PoolStores \cup DisperseStores \cup SinkRootStores
        \cup CycleStores \cup UntimedStores \cup MalformedStores \cup TiedStores

\* the lookups of a run all answer, or those of one kind fail
AllAnswer == [get_code |-> "ok", getsourcecode |-> "ok"]
RpcOutcomes == [get_code : {"ok", "fails"}, getsourcecode : {"ok", "fails"}]

Worlds ==
    {[store |-> s, rpc |-> AllAnswer] : s \in Stores}
        \cup {[store |-> s, rpc |-> r] : s \in LookupStores, r \in RpcOutcomes}

-----------------------------------------------------------------------------
(* trace_flow frames *)

Frame(address, actual, is_initial, v, b, i, a, r) ==
    [address |-> address, actual_amount_received |-> actual, is_initial |-> is_initial,
     visited |-> v, beneficiaries |-> b, intermediaries |-> i,
     amount_received_map |-> a, returned_amounts |-> r,
     pc |-> "call", todo |-> << >>, to_addr |-> "", sub_ben |-> 0,
     \* history: the caller's beneficiaries when it made its last call
     before |-> EmptyDict]

Top == stack[Len(stack)]
SetTop(f) == [stack EXCEPT ![Len(stack)] = f]
At(label) == stack # << >> /\ Top.pc = label

\* `x = x or new()`: the argument object unless it is None or empty
IsFalsy(heap, ref, empty) == ref = 0 \/ heap[ref] = empty
RefOr(heap, ref, empty) == IF IsFalsy(heap, ref, empty) THEN Len(heap) + 1 ELSE ref
HeapOr(heap, ref, empty) == IF IsFalsy(heap, ref, empty) THEN Append(heap, empty) ELSE heap

\* no row in any of the files the fallback reads
NoRows == [combined_beneficiaries |-> << >>, arb_intermediaries |-> << >>, arb_returned |-> << >>]

\* a working directory that holds none of the CSV files yet
NoFiles ==
    [arb_beneficiaries |-> << >>, arb_intermediaries |-> << >>, arb_returned |-> << >>,
     merkl_beneficiaries |-> << >>, combined_beneficiaries |-> << >>,
     combined_intermediaries |-> << >>, combined_returned |-> << >>]

Init ==
    /\ \E w \in Worlds :
         /\ txs = w.store.txs /\ payouts = w.store.payouts /\ root = w.store.root
         /\ rpc = w.rpc
    /\ exc = "" /\ call = 1 /\ first_call = << >>
    /\ files = NoFiles /\ merkl_export_performed = FALSE
    /\ csv = NoRows /\ response = << >> /\ request = << >>
    /\ pc = "start"
    /\ stack = << >>
    /\ benH = << >> /\ intH = << >> /\ retH = << >> /\ armH = << >> /\ visH = << >>
    /\ res = [beneficiaries |-> 0, intermediaries |-> 0, returned_amounts |-> 0,
              amount_received_map |-> 0]
    /\ entered = << >>


-----------------------------------------------------------------------------
(* find_beneficiaries: selecting the collection and starting the trace *)

\* mutant: any collection is taken, whether or not it holds the address
HasCollection_Any == TRUE

\* select_transactions_collection_for_protocol found a collection
HasCollection == \E i \in 1..Len(txs) : txs[i].from = Lower(root)

\* an exception no frame catches ends trace_flow and find_beneficiaries
Raise(exception) ==
    /\ pc' = "raised" /\ exc' = exception
    /\ stack' = << >>
    /\ UNCHANGED <<txs, payouts, root, benH, intH, retH, armH, visH, res, entered,
                   rpc, call, first_call, files,
                   merkl_export_performed, server>>

\* set_transactions_collection_by_protocol raises ValueError
RaiseNoCollection ==
    /\ pc \in {"start", "compute"} /\ ~HasCollection
    /\ Raise("ValueError")

\* mutant: a default object that lives on from one call to the next
DefaultArgument_Shared(left_by_last_call) == left_by_last_call

\* a parameter the call leaves out takes its default, None
DefaultArgument(left_by_last_call) == 0

\* trace_flow((protocol_recipient or "").lower(), is_initial=True)
StartTrace ==
    /\ pc = "start" /\ HasCollection
    /\ pc' = "trace"
    /\ stack' = <<Frame(Lower(root), 0, TRUE, DefaultArgument(0),
                        DefaultArgument(res.beneficiaries), DefaultArgument(res.intermediaries),
                        DefaultArgument(res.amount_received_map),
                        DefaultArgument(res.returned_amounts))>>
    /\ entered' = Append(entered, Lower(root))
    /\ UNCHANGED <<txs, payouts, root, benH, intH, retH, armH, visH, res, outside>>

-----------------------------------------------------------------------------
(* trace_flow *)

\* visited = visited or set() ... returned_amounts = returned_amounts or defaultdict(Decimal)
Prologue ==
    /\ At("call")
    /\ LET f == Top IN
        /\ visH' = HeapOr(visH, f.visited, {})
        /\ benH' = HeapOr(benH, f.beneficiaries, EmptyDict)
        /\ armH' = HeapOr(armH, f.amount_received_map, EmptyDict)
        /\ intH' = HeapOr(intH, f.intermediaries, EmptyDict)
        /\ retH' = HeapOr(retH, f.returned_amounts, EmptyDict)
        /\ stack' = SetTop([f EXCEPT !.visited = RefOr(visH, f.visited, {}),
                                     !.beneficiaries = RefOr(benH, f.beneficiaries, EmptyDict),
                                     !.amount_received_map = RefOr(armH, f.amount_received_map, EmptyDict),
                                     !.intermediaries = RefOr(intH, f.intermediaries, EmptyDict),
                                     !.returned_amounts = RefOr(retH, f.returned_amounts, EmptyDict),
                                     !.pc = "enter"])
    /\ UNCHANGED <<txs, payouts, root, pc, res, entered, outside>>

IsStop(addr_l) == addr_l = "" \/ addr_l \in STOP_ADDRESS
IsReturn(addr_l) == addr_l = RETURN_ADDRESS

\* if not addr_l or addr_l in STOP_ADDRESS: return
EnterStop ==
    /\ At("enter") /\ IsStop(Top.address)
    /\ stack' = SetTop([Top EXCEPT !.pc = "return"])
    /\ UNCHANGED <<txs, payouts, root, pc, benH, intH, retH, armH, visH, res, entered, outside>>

\* if addr_l == RETURN_ADDRESS: record the amount and return
EnterReturn ==
    /\ At("enter") /\ ~IsStop(Top.address) /\ IsReturn(Top.address)
    /\ LET f == Top
           actual_amt == f.actual_amount_received
       IN /\ retH' = [retH EXCEPT ![f.returned_amounts] = Add(@, f.address, actual_amt)]
          /\ armH' = [armH EXCEPT ![f.amount_received_map] = Put(@, f.address, actual_amt)]
          /\ stack' = SetTop([f EXCEPT !.pc = "return"])
    /\ UNCHANGED <<txs, payouts, root, pc, benH, intH, visH, res, entered, outside>>

\* if is_initial: the loop over the sorted outgoing transactions begins
EnterRoot ==
    /\ At("enter") /\ ~IsStop(Top.address) /\ ~IsReturn(Top.address) /\ Top.is_initial
    /\ stack' = SetTop([Top EXCEPT !.pc = "root_loop",
                                   !.todo = SortedByTime(get_transactions(Top.address, FALSE))])
    /\ UNCHANGED <<txs, payouts, root, pc, benH, intH, retH, armH, visH, res, entered, outside>>

IsNonRoot(f) == ~IsStop(f.address) /\ ~IsReturn(f.address) /\ ~f.is_initial

\* if not incoming_txs: final beneficiary with the actual amount
EnterNoIncoming ==
    /\ At("enter") /\ IsNonRoot(Top)
    /\ get_transactions(Top.address, TRUE) = << >>
    /\ LET f == Top
           actual_amt == f.actual_amount_received
       IN /\ armH' = [armH EXCEPT ![f.amount_received_map] = Put(@, f.address, actual_amt)]
          /\ benH' = [benH EXCEPT ![f.beneficiaries] = Add(@, f.address, actual_amt)]
          /\ stack' = SetTop([f EXCEPT !.pc = "return"])
    /\ UNCHANGED <<txs, payouts, root, pc, intH, retH, visH, res, entered, outside>>

\* if is_disperse_contract(addr_l): resolve the payouts and return
EnterDisperse ==
    /\ At("enter") /\ IsNonRoot(Top)
    /\ get_transactions(Top.address, TRUE) # << >>
    /\ IncomingParses(Top.address) /\ ~get_code_raises
    /\ is_disperse_contract(Top.address)
    /\ LET f == Top
           rows == deduplicated_rows(f.address)
           bsums == beneficiary_sums(rows)
           rsums == return_sums(rows)
           total_dispersed == SumDict(bsums) + SumDict(rsums)
           arm1 == Put(armH[f.amount_received_map], f.address, f.actual_amount_received)
       IN /\ benH' = [benH EXCEPT ![f.beneficiaries] = SetAll(@, bsums)]
          /\ armH' = [armH EXCEPT ![f.amount_received_map] = SetAll(SetAll(arm1, bsums), rsums)]
          /\ retH' = [retH EXCEPT ![f.returned_amounts] = AddAll(@, rsums)]
          /\ intH' = [intH EXCEPT ![f.intermediaries] = Add(@, f.address, total_dispersed)]
          /\ stack' = SetTop([f EXCEPT !.pc = "return"])
    /\ UNCHANGED <<txs, payouts, root, pc, visH, res, entered, outside>>

IsOrdinary(f) ==
    /\ IsNonRoot(f)
    /\ get_transactions(f.address, TRUE) # << >>
    /\ ~is_disperse_contract(f.address)

\* total_incoming_amt = sum_values(incoming_txs) raises decimal.InvalidOperation
RaiseSumValues ==
    /\ At("enter") /\ IsNonRoot(Top)
    /\ get_transactions(Top.address, TRUE) # << >>
    /\ ~IncomingParses(Top.address)
    /\ Raise("InvalidOperation")

\* is_disperse_contract(addr_l) raises what w3.eth.get_code raised
RaiseGetCode ==
    /\ At("enter") /\ IsNonRoot(Top)
    /\ get_transactions(Top.address, TRUE) # << >>
    /\ IncomingParses(Top.address)
    /\ get_code_raises
    /\ Raise("ConnectionError")

\* amt = Decimal(str(tx.get("value", 0) or "0")) of the limiting loop raises
RaiseLimiting ==
    /\ At("enter") /\ IsOrdinary(Top)
    /\ IncomingParses(Top.address) /\ ~get_code_raises
    /\ LimitingRaises(Top.address)
    /\ Raise("InvalidOperation")

\* if is_intermediary: intermediaries[addr_l] += total_incoming_amt, then the loop
EnterIntermediary ==
    /\ At("enter") /\ IsOrdinary(Top)
    /\ IncomingParses(Top.address) /\ ~get_code_raises /\ ~LimitingRaises(Top.address)
    /\ is_intermediary(limited_outgoing(Top.address))
    /\ LET f == Top
           total_incoming_amt == sum_values(get_transactions(f.address, TRUE))
       IN /\ armH' = [armH EXCEPT ![f.amount_received_map] =
                                    Put(@, f.address, f.actual_amount_received)]
          /\ intH' = [intH EXCEPT ![f.intermediaries] = Add(@, f.address, total_incoming_amt)]
          /\ stack' = SetTop([f EXCEPT !.pc = "int_loop", !.todo = limited_outgoing(f.address)])
    /\ UNCHANGED <<txs, payouts, root, pc, benH, retH, visH, res, entered, outside>>

\* else: beneficiaries[addr_l] += actual_amt
EnterBeneficiary ==
    /\ At("enter") /\ IsOrdinary(Top)
    /\ IncomingParses(Top.address) /\ ~get_code_raises /\ ~LimitingRaises(Top.address)
    /\ ~is_intermediary(limited_outgoing(Top.address))
    /\ LET f == Top IN
          /\ armH' = [armH EXCEPT ![f.amount_received_map] =
                                    Put(@, f.address, f.actual_amount_received)]
          /\ benH' = [benH EXCEPT ![f.beneficiaries] = Add(@, f.address, f.actual_amount_received)]
          /\ stack' = SetTop([f EXCEPT !.pc = "return"])
    /\ UNCHANGED <<txs, payouts, root, pc, intH, retH, visH, res, entered, outside>>

\* mutant: the loops no longer look at the visited set
SkipsEdge_IgnoresVisited(f, tx) == tx.to = ""

\* if not to_addr or to_addr in visited: continue
SkipsEdge(f, tx) == tx.to = "" \/ tx.to \in visH[f.visited]

\* the recursive call of either loop, for the transaction tx
ChildFrame(f, tx) ==
    Frame(tx.to, AmountOf(tx), FALSE, f.visited, f.beneficiaries, f.intermediaries,
          f.amount_received_map, f.returned_amounts)

RootSkip ==
    /\ At("root_loop") /\ Top.todo # << >> /\ SkipsEdge(Top, Head(Top.todo))
    /\ stack' = SetTop([Top EXCEPT !.todo = Tail(@)])
    /\ UNCHANGED <<txs, payouts, root, pc, benH, intH, retH, armH, visH, res, entered, outside>>

\* amount_received_map[to_addr] = amt_sent; visited.add(to_addr); trace_flow(to_addr, ...)
RootCall ==
    /\ At("root_loop") /\ Top.todo # << >> /\ ~SkipsEdge(Top, Head(Top.todo))
    /\ IsDecimal(Head(Top.todo).value)
    /\ LET f == Top
           tx == Head(f.todo)
       IN /\ armH' = [armH EXCEPT ![f.amount_received_map] = Put(@, tx.to, AmountOf(tx))]
          /\ visH' = [visH EXCEPT ![f.visited] = @ \cup {tx.to}]
          /\ stack' = Append(SetTop([f EXCEPT !.todo = Tail(@), !.pc = "root_wait",
                                              !.to_addr = tx.to,
                                              !.before = benH[f.beneficiaries]]),
                             ChildFrame(f, tx))
          /\ entered' = Append(entered, tx.to)
    /\ UNCHANGED <<txs, payouts, root, pc, benH, intH, retH, res, outside>>

\* amt_sent = Decimal(str(tx.get("value", 0) or "0")) raises decimal.InvalidOperation
RootRaise ==
    /\ At("root_loop") /\ Top.todo # << >> /\ ~SkipsEdge(Top, Head(Top.todo))
    /\ ~IsDecimal(Head(Top.todo).value)
    /\ Raise("InvalidOperation")

RootDone ==
    /\ At("root_loop") /\ Top.todo = << >>
    /\ stack' = SetTop([Top EXCEPT !.pc = "return"])
    /\ UNCHANGED <<txs, payouts, root, pc, benH, intH, retH, armH, visH, res, entered, outside>>

IntSkip ==
    /\ At("int_loop") /\ Top.todo # << >> /\ SkipsEdge(Top, Head(Top.todo))
    /\ stack' = SetTop([Top EXCEPT !.todo = Tail(@)])
    /\ UNCHANGED <<txs, payouts, root, pc, benH, intH, retH, armH, visH, res, entered, outside>>

\* visited.add(to_addr); trace_flow(to_addr, raw_amt_sent, ...)
IntCall ==
    /\ At("int_loop") /\ Top.todo # << >> /\ ~SkipsEdge(Top, Head(Top.todo))
    /\ LET f == Top
           tx == Head(f.todo)
       IN /\ visH' = [visH EXCEPT ![f.visited] = @ \cup {tx.to}]
          /\ stack' = Append(SetTop([f EXCEPT !.todo = Tail(@), !.pc = "int_wait",
                                              !.to_addr = tx.to,
                                              !.before = benH[f.beneficiaries]]),
                             ChildFrame(f, tx))
          /\ entered' = Append(entered, tx.to)
    /\ UNCHANGED <<txs, payouts, root, pc, benH, intH, retH, armH, res, outside>>

IntDone ==
    /\ At("int_loop") /\ Top.todo = << >>
    /\ stack' = SetTop([Top EXCEPT !.pc = "return"])
    /\ UNCHANGED <<txs, payouts, root, pc, benH, intH, retH, armH, visH, res, entered, outside>>

\* sub_ben, intermediaries, amount_received_map, _, returned_amounts = trace_flow(...)
ReturnToCaller ==
    /\ At("return") /\ Len(stack) > 1
    /\ LET child == Top
           f == stack[Len(stack) - 1]
       IN stack' = [SubSeq(stack, 1, Len(stack) - 1) EXCEPT ![Len(stack) - 1] =
                      [f EXCEPT !.sub_ben = child.beneficiaries,
                                !.intermediaries = child.intermediaries,
                                !.amount_received_map = child.amount_received_map,
                                !.returned_amounts = child.returned_amounts,
                                !.pc = IF f.is_initial THEN "root_merge" ELSE "int_merge"]]
    /\ UNCHANGED <<txs, payouts, root, pc, benH, intH, retH, armH, visH, res, entered, outside>>

\* for k, v in sub_ben.items(): if k not in beneficiaries or beneficiaries[k] == 0: ...
RootMerge ==
    /\ At("root_merge")
    /\ LET f == Top IN
          /\ benH' = [benH EXCEPT ![f.beneficiaries] = RootMerged(@, benH[f.sub_ben])]
          /\ stack' = SetTop([f EXCEPT !.pc = "root_loop"])
    /\ UNCHANGED <<txs, payouts, root, pc, intH, retH, armH, visH, res, entered, outside>>

\* for k, v in sub_ben.items(): beneficiaries[k] += v
IntMerge ==
    /\ At("int_merge")
    /\ LET f == Top IN
          /\ benH' = [benH EXCEPT ![f.beneficiaries] = IntMerged(@, benH[f.sub_ben])]
          /\ stack' = SetTop([f EXCEPT !.pc = "int_loop"])
    /\ UNCHANGED <<txs, payouts, root, pc, intH, retH, armH, visH, res, entered, outside>>

-----------------------------------------------------------------------------
(* find_beneficiaries: after the trace *)

\* beneficiaries, intermediaries, amount_received_map, _, returned_amounts = trace_flow(...)
ReturnToFind ==
    /\ pc = "trace" /\ At("return") /\ Len(stack) = 1
    /\ res' = [beneficiaries |-> Top.beneficiaries, intermediaries |-> Top.intermediaries,
               returned_amounts |-> Top.returned_amounts,
               amount_received_map |-> Top.amount_received_map]
    /\ stack' = << >>
    /\ pc' = "reconcile"
    /\ UNCHANGED <<txs, payouts, root, benH, intH, retH, armH, visH, entered, outside>>

\* mutant: the loop deletes nothing
Reconciled_Nothing(beneficiaries, intermediaries) == beneficiaries

\* for addr in list(beneficiaries): if addr in intermediaries: del beneficiaries[addr]
Reconciled(beneficiaries, intermediaries) == Del(beneficiaries, Keys(intermediaries))

\* the loop that removes the intermediaries, then ben_df.to_csv(ARB_CSV_PATH),
\* the intermediaries CSV and, `if returned_amounts:`, the returned CSV
Reconcile ==
    /\ pc = "reconcile"
    /\ LET kept == Reconciled(benH[res.beneficiaries], intH[res.intermediaries]) IN
         /\ benH' = [benH EXCEPT ![res.beneficiaries] = kept]
         /\ files' = [files EXCEPT
                        !.arb_beneficiaries = <<kept>>,
                        !.arb_intermediaries = <<intH[res.intermediaries]>>,
                        !.arb_returned = IF retH[res.returned_amounts] # EmptyDict
                                         THEN <<retH[res.returned_amounts]>>
                                         ELSE files.arb_returned]
    /\ pc' = "done"
    /\ UNCHANGED <<txs, payouts, root, stack, intH, retH, armH, visH, res, entered,
                   rpc, exc, call, first_call, merkl_export_performed, server>>

\* the caller calls find_beneficiaries once more, for the same protocol address
CallAgain ==
    /\ pc = "done" /\ call < MaxCalls
    /\ pc' = "start"
    /\ call' = call + 1
    /\ first_call' = IF call = 1
                THEN <<[beneficiaries |-> benH[res.beneficiaries],
                        intermediaries |-> intH[res.intermediaries],
                        returned_amounts |-> retH[res.returned_amounts]]>>
                ELSE first_call
    /\ entered' = << >>
    /\ UNCHANGED <<txs, payouts, root, stack, benH, intH, retH, armH, visH, res,
                   rpc, exc, files,
                   merkl_export_performed, server>>

TraceNext ==
    \/ RaiseNoCollection
    \/ StartTrace
    \/ Prologue
    \/ EnterStop
    \/ EnterReturn
    \/ EnterRoot
    \/ EnterNoIncoming
    \/ EnterDisperse
    \/ EnterIntermediary
    \/ EnterBeneficiary
    \/ RaiseSumValues
    \/ RaiseGetCode
    \/ RaiseLimiting
    \/ RootSkip
    \/ RootCall
    \/ RootRaise
    \/ RootDone
    \/ IntSkip
    \/ IntCall
    \/ IntDone
    \/ ReturnToCaller
    \/ RootMerge
    \/ IntMerge
    \/ ReturnToFind
    \/ Reconcile

Next ==
    \/ TraceNext
    \/ CallAgain

Spec == Init /\ [][Next]_vars

\* The store with every transaction whose destination is a stop address taken
\* out: what get_transactions then finds for any account
WithoutStopPayments(store) ==
    SelectSeq(store, LAMBDA t : Lower(t.to) \notin STOP_ADDRESS)

\* find_beneficiaries is called again for the same root once the transaction
\* store no longer holds the payments to stop addresses
CallWithoutStopPayments ==
    /\ pc = "done" /\ call < MaxCalls
    /\ txs # WithoutStopPayments(txs)
    /\ pc' = "start"
    /\ call' = call + 1
    /\ txs' = WithoutStopPayments(txs)
    /\ first_call' = IF call = 1
                THEN <<[beneficiaries |-> benH[res.beneficiaries],
                        intermediaries |-> intH[res.intermediaries],
                        returned_amounts |-> retH[res.returned_amounts]]>>
                ELSE first_call
    /\ entered' = << >>
    /\ UNCHANGED <<payouts, root, stack, benH, intH, retH, armH, visH, res,
                   rpc, exc, files,
                   merkl_export_performed, server>>

StopNext ==
    \/ Next
    \/ CallWithoutStopPayments

\* the calls of one process over a store that loses its stop-address payments
StopSpec == Init /\ [][StopNext]_vars

\* The store returning its transactions with those at positions i and j
\* exchanged
Swapped(store, i, j) ==
    [k \in 1..Len(store) |->
        IF k = i THEN store[j] ELSE IF k = j THEN store[i] ELSE store[k]]

\* two transactions of one account that sorted() compares equal: the same
\* timeStamp, or both without a usable one
Tied(t, u) == Lower(t.from) = Lower(u.from) /\ SortKey(t) = SortKey(u)

\* find_beneficiaries is called again for the same root once the store returns
\* two tied transactions of an account in the other order
CallReordered ==
    /\ pc = "done" /\ call < MaxCalls
    /\ \E i, j \in 1..Len(txs) :
          /\ i < j /\ Tied(txs[i], txs[j])
          /\ txs' = Swapped(txs, i, j)
    /\ pc' = "start"
    /\ call' = call + 1
    /\ first_call' = IF call = 1
                THEN <<[beneficiaries |-> benH[res.beneficiaries],
                        intermediaries |-> intH[res.intermediaries],
                        returned_amounts |-> retH[res.returned_amounts]]>>
                ELSE first_call
    /\ entered' = << >>
    /\ UNCHANGED <<payouts, root, stack, benH, intH, retH, armH, visH, res,
                   rpc, exc, files,
                   merkl_export_performed, server>>

OrderNext ==
    \/ Next
    \/ CallReordered

\* the calls of one process over a store that returns tied transactions in
\* another order
OrderSpec == Init /\ [][OrderNext]_vars

-----------------------------------------------------------------------------
(* compute_beneficiaries_for_protocol: the rewards-campaign export, the    *)
(* trace, and combine_beneficiaries over the CSV files                      *)

\* the rewards distributor: creators are the senders of payments to it, and
\* combine_beneficiaries always books it as an intermediary
TARGET_TO_ADDRESS == "z"
special_intermediary == TARGET_TO_ADDRESS

\* Stores of protocols that may have paid the rewards distributor
MerklBase == <<
    Tx("a", "b", 1000, 1, "k1"),
    Tx("a", "z", 300, 2, "k2"),
    Tx("b", "c", 600, 3, "k3"),
    Tx("b", "r", 200, 4, "k4"),
    Tx("b", "s1", 100, 5, "k5") >>

MerklStores ==
    {[txs |-> SelectSeq(MerklBase, LAMBDA t : t \in S), payouts |-> << >>, root |-> "a"]
        : S \in SUBSET Range(MerklBase)}

\* the totals per recipient export_to_csv may find for the campaigns
MerklExports == {[k \in {"b"} |-> 40], [k \in {"D", "c"} |-> 25]}

\* the protocols of the first call, and those of the calls after it
ComputeWorlds ==
    {[store |-> s, rpc |-> AllAnswer] : s \in MerklStores \cup CycleStores \cup MalformedStores}
        \cup {[store |-> s, rpc |-> r] : s \in LookupStores, r \in RpcOutcomes}
LaterWorlds == {[store |-> s, rpc |-> AllAnswer] : s \in MerklStores}

ComputeInit ==
    /\ \E w \in ComputeWorlds :
         /\ txs = w.store.txs /\ payouts = w.store.payouts /\ root = w.store.root
         /\ rpc = w.rpc
    /\ exc = "" /\ call = 1 /\ first_call = << >>
    /\ files = NoFiles /\ merkl_export_performed = FALSE
    /\ csv = NoRows /\ response = << >> /\ request = << >>
    /\ pc = "compute"
    /\ stack = << >>
    /\ benH = << >> /\ intH = << >> /\ retH = << >> /\ armH = << >> /\ visH = << >>
    /\ res = [beneficiaries |-> 0, intermediaries |-> 0, returned_amounts |-> 0,
              amount_received_map |-> 0]
    /\ entered = << >>

\* fetch_creator_addresses: the senders of payments to TARGET_TO_ADDRESS
creator_addresses == {txs[i].from : i \in {j \in 1..Len(txs) : txs[j].to = TARGET_TO_ADDRESS}}

\* The Merkl flow: without creators nothing is exported; with creators
\* export_to_csv writes the recipients' totals and sets its flag, or finds no
\* recipient and returns
MerklFlow ==
    /\ pc = "compute" /\ HasCollection
    /\ \/ /\ UNCHANGED <<files, merkl_export_performed>>
       \/ /\ creator_addresses # {}
          /\ \E m \in MerklExports :
                files' = [files EXCEPT !.merkl_beneficiaries = <<m>>]
          /\ merkl_export_performed' = TRUE
    /\ pc' = "start"
    /\ UNCHANGED <<txs, payouts, root, stack, benH, intH, retH, armH, visH, res, entered,
                   rpc, exc, call, first_call, server>>

\* the rows a load_* function takes from a file: addresses stripped and
\* lower-cased, amounts that are not positive left out, equal addresses added up
Loaded(file) ==
    IF file = << >> THEN EmptyDict
    ELSE LET d == file[1]
             pos == {x \in Keys(d) : d[x] > 0}
         IN [k \in {Lower(x) : x \in pos} |->
                SumOver(d, {x \in pos : Lower(x) = k})]

\* d[k] += e[k] for every k of e
Plus(d, e) == [k \in Keys(d) \cup Keys(e) |-> Get(d, k) + Get(e, k)]

\* the entries of d for the addresses in ks
Only(d, ks) == [k \in Keys(d) \cap ks |-> d[k]]

\* combine_beneficiaries after find_beneficiaries has set
\* disperse_export_performed, and the lists read back from the combined files
Combine ==
    /\ pc = "done"
    /\ LET arb == Loaded(files.arb_beneficiaries)
           merkl == IF merkl_export_performed
                    THEN Loaded(files.merkl_beneficiaries) ELSE EmptyDict
           both == Plus(arb, merkl)
           combined == Del(both, {special_intermediary})
           combined_intermediaries ==
               Plus(Only(both, {special_intermediary}), Loaded(files.arb_intermediaries))
           combined_returned == Loaded(files.arb_returned)
       IN files' = [files EXCEPT !.combined_beneficiaries = <<combined>>,
                                 !.combined_intermediaries = <<combined_intermediaries>>,
                                 !.combined_returned = <<combined_returned>>]
    /\ pc' = "computed"
    /\ UNCHANGED <<txs, payouts, root, stack, benH, intH, retH, armH, visH, res, entered,
                   rpc, exc, call, first_call, merkl_export_performed, server>>

\* the process calls compute_beneficiaries_for_protocol for the next protocol,
\* which begins by resetting the two flags
ComputeAgain ==
    /\ pc = "computed" /\ call < MaxCalls
    /\ \E w \in LaterWorlds :
         /\ txs' = w.store.txs /\ payouts' = w.store.payouts /\ root' = w.store.root
         /\ rpc' = w.rpc
    /\ merkl_export_performed' = FALSE
    /\ pc' = "compute"
    /\ call' = call + 1
    /\ entered' = << >>
    /\ UNCHANGED <<stack, benH, intH, retH, armH, visH, res, exc, first_call, files, server>>

ComputeNext ==
    \/ TraceNext
    \/ MerklFlow
    \/ Combine
    \/ ComputeAgain

\* the calls of compute_beneficiaries_for_protocol of one process
ComputeSpec == ComputeInit /\ [][ComputeNext]_vars

\* the ledgers find_beneficiaries holds once trace_flow has returned
beneficiaries == benH[res.beneficiaries]
intermediaries == intH[res.intermediaries]
returned_amounts == retH[res.returned_amounts]
amount_received_map == armH[res.amount_received_map]


-----------------------------------------------------------------------------
(* Binary floating point: a float is the set of the positions of its one   *)
(* bits, position p standing for 2^p; the empty set is 0.0                 *)

\* the significant bits of a float
MantissaBits == 53
\* binary digits of a fraction worked out before the value is rounded
FractionBits == 60
\* binary digits of the integer part of a numeral
IntegerWidth == 30

RECURSIVE Pow2(_)
Pow2(n) == IF n = 0 THEN 1 ELSE 2 * Pow2(n - 1)

\* the positions of the one bits of the natural number q
IntegerBits(q) == {i \in 0..IntegerWidth : (q \div Pow2(i)) % 2 = 1}

\* binary long division of r/10 from position p downwards; what is left
\* after the last position is kept as one more bit below it
RECURSIVE FractionExpansion(_, _)
FractionExpansion(r, p) ==
    IF p < -FractionBits THEN (IF r # 0 THEN {p} ELSE {})
    ELSE LET d == 2 * r
         IN (IF d >= 10 THEN {p} ELSE {}) \cup FractionExpansion(d % 10, p - 1)

Highest(S) == CHOOSE p \in S : \A q \in S : q <= p

\* adding 2^p to the number S: the carry runs upwards
RECURSIVE AddBit(_, _)
AddBit(S, p) == IF p \in S THEN AddBit(S \ {p}, p + 1) ELSE S \cup {p}

\* round to nearest, ties to even, at 53 significant bits
RoundToDouble(S) ==
    IF S = {} THEN {}
    ELSE LET cut == Highest(S) - (MantissaBits - 1)
             kept == {p \in S : p >= cut}
             up == (cut - 1) \in S /\ ((\E p \in S : p < cut - 1) \/ cut \in S)
         IN IF up THEN AddBit(kept, cut) ELSE kept

\* float(s) for the numeral s of k tenths, such as "0.3" for k = 3
float(k) == RoundToDouble(IntegerBits(k \div 10) \cup FractionExpansion(k % 10, -1))

\* the carry into position p when A and B are added
RECURSIVE CarryInto(_, _, _)
CarryInto(A, B, p) ==
    IF p <= -(FractionBits + 1) THEN FALSE
    ELSE \/ (p - 1) \in A /\ (p - 1) \in B
         \/ ((p - 1) \in A \/ (p - 1) \in B) /\ CarryInto(A, B, p - 1)

\* A + B, exactly
ExactSum(A, B) ==
    IF A \cup B = {} THEN {}
    ELSE {p \in (-(FractionBits + 1))..(Highest(A \cup B) + 1) :
            ((p \in A) # (p \in B)) # CarryInto(A, B, p)}

\* total + v on floats
FloatAdd(A, B) == RoundToDouble(ExactSum(A, B))

-----------------------------------------------------------------------------
(* The /analyze endpoint: the fallback that answers from the CSV files.    *)
(* An amount cell holds a decimal numeral with one fractional digit,       *)
(* written as its number of tenths, or Unparsable.                         *)

\* the amounts of the rows
AmountPool == {1, 2, 7, Unparsable}
LargestAmount == 7
\* the largest total, in tenths, the rows of two files can add up to
MaxNumeral == (MaxRows + 1) * LargestAmount
\* a numeral with more fractional digits than one, such as 0.30000000000000004
MoreDigits == -2

\* the rows of a file: the addresses in order, the amounts drawn from the
\* pool, the first address cell left empty if blank
Rows(amounts, blank) ==
    [i \in 1..Len(amounts) |->
        [address |-> IF blank /\ i = 1 THEN "" ELSE LeafNames[i], amount |-> amounts[i]]]

AmountLists(n) == UNION {[1..l -> AmountPool] : l \in 0..n}

CsvFiles ==
    {[combined_beneficiaries |-> Rows(b, blank),
      arb_intermediaries |-> Rows(i, FALSE),
      arb_returned |-> Rows(r, FALSE)]
        : b \in AmountLists(1), i \in AmountLists(1), r \in AmountLists(MaxRows),
          blank \in BOOLEAN}

\* What the two blocks that read combined_beneficiaries.csv and
\* arb_intermediaries.csv leave in their list. `import pandas as pd` further
\* down in analyze_protocol makes pd a local name of the whole function, so
\* pd.read_csv raises UnboundLocalError here, before that import has run;
\* the block's `except Exception` prints it and the list stays empty.
listed_before_import(rows) == << >>

\* safe_sum_amounts: total = 0.0; then total += float(...) for every item,
\* passing over an item float() raises on
RECURSIVE safe_sum_amounts(_)
safe_sum_amounts(items) ==
    IF items = << >> THEN {}
    ELSE LET i == items[Len(items)]
             total == safe_sum_amounts(SubSeq(items, 1, Len(items) - 1))
         IN IF IsDecimal(i.amount) THEN FloatAdd(total, float(i.amount)) ELSE total

\* str(x) of a float: the shortest numeral that float() takes back to x
repr(x) ==
    IF \E k \in 0..MaxNumeral : float(k) = x
    THEN CHOOSE k \in 0..MaxNumeral : float(k) = x
    ELSE MoreDigits

\* str(sum(float(x) for x in df_ret["amount_returned"] ...)); "0" when float() raises
total_amount_returned(rows) ==
    IF \A i \in 1..Len(rows) : IsDecimal(rows[i].amount)
    THEN repr(safe_sum_amounts(rows))
    ELSE 0

\* str.strip(): the text without its leading and trailing blanks
RECURSIVE strip(_)
strip(text) ==
    IF text = << >> THEN text
    ELSE IF Head(text) = " " THEN strip(Tail(text))
    ELSE IF text[Len(text)] = " " THEN strip(SubSeq(text, 1, Len(text) - 1))
    ELSE text

\* the length the validation asks of an address
AddressLength == 42

\* protocol_addr and protocol_addr.startswith("0x") and len(protocol_addr) == 42
IsAddress(protocol_addr) ==
    /\ protocol_addr # << >>
    /\ Len(protocol_addr) >= 2 /\ SubSeq(protocol_addr, 1, 2) = <<"0", "x">>
    /\ Len(protocol_addr) = AddressLength

\* except Exception as e: raise HTTPException(status_code=500, ...)
OuterHandler(raised) == 500

\* Requests: nothing, blanks, a well-formed address with and without blanks
\* around it, and texts of a wrong length or without the 0x
Digits(n) == [i \in 1..n |-> "a"]
Requests == {
    << >>,
    <<" ", " ">>,
    <<"0", "x">> \o Digits(AddressLength - 2),
    <<" ">> \o <<"0", "x">> \o Digits(AddressLength - 2) \o <<" ">>,
    <<"0", "x">> \o Digits(2),
    <<"0", "x">> \o Digits(AddressLength - 1),
    Digits(AddressLength) }

ServerInit ==
    /\ txs = << >> /\ payouts = << >> /\ root = "a"
    /\ rpc = AllAnswer /\ exc = "" /\ call = 1 /\ first_call = << >>
    /\ files = NoFiles /\ merkl_export_performed = FALSE
    /\ stack = << >>
    /\ benH = << >> /\ intH = << >> /\ retH = << >> /\ armH = << >> /\ visH = << >>
    /\ res = [beneficiaries |-> 0, intermediaries |-> 0, returned_amounts |-> 0,
              amount_received_map |-> 0]
    /\ entered = << >>
    /\ csv \in CsvFiles
    /\ response = << >>
    /\ request \in Requests
    /\ pc = "analyze"

\* The request fails the validation: HTTPException(400) is raised inside the
\* outer try, whose `except Exception` takes it and raises HTTPException(500)
RejectRequest ==
    /\ pc = "analyze" /\ ~IsAddress(strip(request))
    /\ response' = [status_code |-> OuterHandler(400)]
    /\ pc' = "failed"
    /\ UNCHANGED <<txs, payouts, root, stack, benH, intH, retH, armH, visH, res, entered,
                   rpc, exc, call, first_call, files,
                   merkl_export_performed, csv, request>>

\* compute_beneficiaries_for_protocol is None, or the call raised
LiveAnalysisFails ==
    /\ pc = "analyze" /\ IsAddress(strip(request))
    /\ pc' = "fallback"
    /\ UNCHANGED <<txs, payouts, root, stack, benH, intH, retH, armH, visH, res, entered,
                   rpc, exc, call, first_call, files,
                   merkl_export_performed, server>>

\* the lists read from the files, the totals and the response
FallbackFromCsv ==
    /\ pc = "fallback"
    /\ LET beneficiaries_list == listed_before_import(csv.combined_beneficiaries)
           intermediaries_list == listed_before_import(csv.arb_intermediaries)
           total_distributed == FloatAdd(safe_sum_amounts(beneficiaries_list),
                                         safe_sum_amounts(intermediaries_list))
       IN response' = [success |-> TRUE,
                       beneficiaries |-> beneficiaries_list,
                       intermediaries |-> intermediaries_list,
                       summary |-> [total_beneficiaries |-> Len(beneficiaries_list),
                                    total_intermediaries |-> Len(intermediaries_list),
                                    total_amount_distributed |-> repr(total_distributed),
                                    total_amount_returned |->
                                        total_amount_returned(csv.arb_returned),
                                    protocol_address |-> strip(request)],
                       message |-> "From CSV files"]
    /\ pc' = "responded"
    /\ UNCHANGED <<txs, payouts, root, stack, benH, intH, retH, armH, visH, res, entered,
                   rpc, exc, call, first_call, files,
                   merkl_export_performed, csv, request>>

ServerNext == RejectRequest \/ LiveAnalysisFails \/ FallbackFromCsv

ServerSpec == ServerInit /\ [][ServerNext]_vars


-----------------------------------------------------------------------------
(* Vocabulary of the claims *)

Done == pc = "done"
TraceEnded == pc = "reconcile"

\* the transactions the root frame iterates over
RootOutgoing == get_transactions(Lower(root), FALSE)

\* every dictionary a frame or the caller can hold
AllBeneficiaries == {benH[i] : i \in DOMAIN benH}
AllIntermediaries == {intH[i] : i \in DOMAIN intH}
AllReturned == {retH[i] : i \in DOMAIN retH}

RECURSIVE SumSet(_, _)
\* the sum of val[x] over the finite set S
SumSet(S, val) ==
    IF S = {} THEN 0
    ELSE LET x == CHOOSE y \in S : TRUE IN val[x] + SumSet(S \ {x}, val)

\* the sum of the values of the transactions of the sequence s that go to account c
SumTo(s, c) ==
    SumSet({i \in 1..Len(s) : s[i].to = c}, [i \in 1..Len(s) |-> s[i].value])

\* the logical payout records of contract X: the distinct (hash, recipient, value,
\* timestamp) tuples of the payout store whose hash is the hash of a payment into X
LogicalPayouts(X) ==
    {<<row.txHash, row.to, row.value, row.timeStamp>> :
        row \in {q \in Range(payouts) :
                    /\ q.from = X /\ q.to # ""
                    /\ \E i \in 1..Len(txs) : txs[i].to = X /\ txs[i].txHash = q.txHash}}

\* the sum of the logical payout records of X paid to the recipient rec
PayoutSum(X, rec) ==
    LET recs == {t \in LogicalPayouts(X) : t[2] = rec}
    IN SumSet(recs, [t \in recs |-> IF IsDecimal(t[3]) THEN t[3] ELSE 0])

PayoutRecipients(X) == {t[2] : t \in {u \in LogicalPayouts(X) : u[3] > 0}}

-----------------------------------------------------------------------------
(* C1 *)

\* b is the one account the root pays, an ordinary account classified as an
\* intermediary, and its balance-limited payments go to distinct accounts that
\* pay nothing on and are neither the return address nor a stop address
C1_FanShape(b) ==
    /\ Len(RootOutgoing) = 1 /\ RootOutgoing[1].to = b
    /\ b \notin STOP_ADDRESS \cup {RETURN_ADDRESS, "", Lower(root)}
    /\ ~is_disperse_contract(b)
    /\ get_transactions(b, TRUE) # << >>
    /\ LET lim == limited_outgoing(b) IN
        /\ lim # << >>
        /\ sum_values(lim) > 500 \/ Cardinality({lim[i].to : i \in 1..Len(lim)}) > 4
        /\ \A i, j \in 1..Len(lim) : i # j => lim[i].to # lim[j].to
        /\ \A i \in 1..Len(lim) :
             /\ lim[i].to \notin STOP_ADDRESS \cup {RETURN_ADDRESS, "", b, Lower(root)}
             /\ get_transactions(lim[i].to, FALSE) = << >>

\* C1: when the root pays one account b, b is classified as an intermediary and
\* its balance-limited payments go to k distinct accounts without outgoing
\* transactions, the run ends with intermediaries = {b: b's total incoming} and
\* every such account a beneficiary with exactly the value b sent to it.
C1_FanOutExactAmounts ==
    Done =>
        \A b \in {RootOutgoing[i].to : i \in 1..Len(RootOutgoing)} :
            C1_FanShape(b) =>
                /\ intermediaries = (b :> sum_values(get_transactions(b, TRUE)))
                /\ LET lim == limited_outgoing(b) IN
                     \A i \in 1..Len(lim) :
                        /\ lim[i].to \in Keys(beneficiaries)
                        /\ beneficiaries[lim[i].to] = lim[i].value

-----------------------------------------------------------------------------
(* C2 *)

\* the accounts and the edges of the stores
GraphEdges ==
    {<<txs[i].from, txs[i].to>> : i \in 1..Len(txs)}
        \cup {<<payouts[i].from, payouts[i].to>> : i \in 1..Len(payouts)}
GraphAccounts == {e[1] : e \in GraphEdges} \cup {e[2] : e \in GraphEdges}

RECURSIVE Descendants(_)
\* the accounts reachable from the set S along one or more edges, S closed under them
Descendants(S) ==
    LET T == S \cup {e[2] : e \in {d \in GraphEdges : d[1] \in S}}
    IN IF T = S THEN S ELSE Descendants(T)

Acyclic ==
    \A a \in GraphAccounts :
        a \notin Descendants({e[2] : e \in {d \in GraphEdges : d[1] = a}})

\* the transactions and logical payout records that pay account c
InDegree(c) ==
    Cardinality({i \in 1..Len(txs) : txs[i].to = c})
        + Cardinality(UNION {{t \in LogicalPayouts(X) : t[2] = c} : X \in DisperseContracts})

C2_TreeShape ==
    /\ Acyclic
    /\ ~IsStop(Lower(root)) /\ ~IsReturn(Lower(root))
    /\ \A a \in GraphAccounts : Lower(a) = a
    /\ \A i \in 1..Len(payouts) :
         /\ payouts[i].from \in DisperseContracts
         /\ \E j \in 1..Len(txs) : txs[j].to = payouts[i].from /\ txs[j].txHash = payouts[i].txHash
    /\ \A c \in GraphAccounts \ {root} : InDegree(c) = 1
    /\ \A c \in GraphAccounts \ ({root} \cup DisperseContracts) :
         sum_values(get_transactions(c, FALSE)) \in {0, sum_values(get_transactions(c, TRUE))}
    /\ \A X \in GraphAccounts \cap DisperseContracts :
         /\ get_transactions(X, FALSE) = << >>
         /\ SumSet(LogicalPayouts(X), [t \in LogicalPayouts(X) |-> t[3]])
              = sum_values(get_transactions(X, TRUE))

\* the total value sent to stop addresses, by transactions and by payouts
SentToStop ==
    SumSet({i \in 1..Len(txs) : txs[i].to \in STOP_ADDRESS}, [i \in 1..Len(txs) |-> txs[i].value])
    + SumSet({t \in UNION {LogicalPayouts(X) : X \in DisperseContracts} : t[2] \in STOP_ADDRESS},
             [t \in UNION {LogicalPayouts(X) : X \in DisperseContracts} |-> t[3]])

\* C2: Conservation. On an acyclic graph in which every non-root account is
\* reached by exactly one transaction and forwards nothing or its whole inflow,
\* sum(beneficiaries) + sum(returned_amounts) equals the root's total outflow
\* minus the total value sent to stop addresses.
C2_Conservation ==
    (Done /\ C2_TreeShape) =>
        SumDict(beneficiaries) + SumDict(returned_amounts)
            = sum_values(RootOutgoing) - SentToStop

-----------------------------------------------------------------------------
(* C3 *)

\* the ordinary accounts the trace classified as intermediaries
TracedIntermediaries == Keys(intermediaries) \ DisperseContracts

\* what the return address was sent by the root, by the traced intermediaries
\* within their balance-limited transactions, and by the resolved disperse contracts
C3_SentToReturn ==
    SumTo(RootOutgoing, RETURN_ADDRESS)
    + SumSet(TracedIntermediaries,
             [a \in TracedIntermediaries |-> SumTo(limited_outgoing(a), RETURN_ADDRESS)])
    + SumSet(Keys(intermediaries) \cap DisperseContracts,
             [X \in Keys(intermediaries) \cap DisperseContracts |-> PayoutSum(X, RETURN_ADDRESS)])

\* C3: Return-address exactness. After a trace from an ordinary root,
\* returned_amounts[RETURN_ADDRESS] is the sum of every traced transaction and
\* every deduplicated payout into the return address.
C3_ReturnExactness ==
    (Done /\ ~IsStop(Lower(root)) /\ ~IsReturn(Lower(root))) =>
        Get(returned_amounts, RETURN_ADDRESS) = C3_SentToReturn


-----------------------------------------------------------------------------
(* C4 *)

\* C4: in every state of a run the return address is a key of no beneficiaries
\* and of no intermediaries dictionary, whichever way it is reached.
C4_ReturnNeverClassified ==
    /\ \A d \in AllBeneficiaries : RETURN_ADDRESS \notin Keys(d)
    /\ \A d \in AllIntermediaries : RETURN_ADDRESS \notin Keys(d)

\* the return address was entered from an intermediary and was paid by a
\* resolved disperse contract, and the run is over
C4_Witness ==
    /\ Done
    /\ \E i \in 2..Len(entered) : entered[i] = RETURN_ADDRESS
    /\ \E X \in Keys(intermediaries) \cap DisperseContracts : PayoutSum(X, RETURN_ADDRESS) > 0
    /\ TracedIntermediaries # {}
    /\ Get(returned_amounts, RETURN_ADDRESS) > 0

-----------------------------------------------------------------------------
(* C5 *)

\* the frame on top of the stack is a call for a stop address
InStopCall == stack # << >> /\ Top.address \in STOP_ADDRESS

\* what a disperse contract adds to intermediaries: its logical payouts
\* that go neither to a stop address nor nowhere
NonStopPayouts(X) ==
    LET recs == {t \in LogicalPayouts(X) : t[2] \notin STOP_ADDRESS}
    IN SumSet(recs, [t \in recs |-> IF IsDecimal(t[3]) THEN t[3] ELSE 0])

C5_NoStopKeys ==
    \A d \in AllBeneficiaries \cup AllIntermediaries \cup AllReturned :
        Keys(d) \cap STOP_ADDRESS = {}

C5_OnlyStopPaid ==
    (Done /\ \A i \in 1..Len(RootOutgoing) : RootOutgoing[i].to \in STOP_ADDRESS) =>
        /\ beneficiaries = EmptyDict
        /\ intermediaries = EmptyDict
        /\ returned_amounts = EmptyDict

\* a call for a stop address changes no entry of any ledger dictionary, from
\* its first step to its return
C5_StopCallStep ==
    InStopCall =>
        /\ \A i \in DOMAIN benH : benH'[i] = benH[i]
        /\ \A i \in DOMAIN intH : intH'[i] = intH[i]
        /\ \A i \in DOMAIN retH : retH'[i] = retH[i]

\* a disperse resolution credits the contract with its payouts less those
\* to stop addresses
C5_DisperseStep ==
    (At("enter") /\ IsNonRoot(Top) /\ is_disperse_contract(Top.address)
        /\ get_transactions(Top.address, TRUE) # << >>
        /\ IncomingParses(Top.address) /\ ~get_code_raises) =>
        Get(intH'[Top.intermediaries], Top.address)
            = Get(intH[Top.intermediaries], Top.address) + NonStopPayouts(Top.address)

\* C5: Stop-address exclusion. A stop address is never a key of a ledger, a
\* call for a stop address and a payout to one add nothing to any ledger, and
\* a root that pays stop addresses only ends with three empty ledgers.
C5_StopExclusion ==
    /\ [](C5_NoStopKeys /\ C5_OnlyStopPaid)
    /\ [][C5_StopCallStep /\ C5_DisperseStep]_vars

\* a stop address was entered from an intermediary, and the run is over
C5_Witness ==
    /\ Done
    /\ \E i \in 2..Len(entered) : entered[i] \in STOP_ADDRESS
    /\ TracedIntermediaries # {}

-----------------------------------------------------------------------------
(* C6 *)

\* the accounts entered below the root: ordinary ones have incoming
\* transactions and are no disperse contract
OrdinaryEntered ==
    {a \in {entered[i] : i \in 2..Len(entered)} :
        /\ a \notin STOP_ADDRESS \cup {RETURN_ADDRESS, Lower(root)}
        /\ ~is_disperse_contract(a)
        /\ get_transactions(a, TRUE) # << >>}

\* the balance-limited total and the distinct destinations of account a
LimitedTotal(a) ==
    LET lim == limited_outgoing(a) IN SumSet(1..Len(lim), [i \in 1..Len(lim) |-> lim[i].value])
LimitedDestinations(a) ==
    LET lim == limited_outgoing(a) IN {lim[i].to : i \in 1..Len(lim)} \ {""}

\* C6: Threshold boundary. When the trace has ended, an ordinary account it
\* entered is an intermediary iff its balance-limited total is above 500 or it
\* has more than 4 distinct balance-limited destinations, and is a beneficiary
\* otherwise (so with exactly 500 and exactly 4).
C6_ThresholdBoundary ==
    TraceEnded =>
        \A a \in OrdinaryEntered :
            /\ a \in Keys(intermediaries)
                 <=> (LimitedTotal(a) > 500 \/ Cardinality(LimitedDestinations(a)) > 4)
            /\ a \notin Keys(intermediaries) => a \in Keys(beneficiaries)

\* an account with a balance-limited total of exactly 500 to exactly 4
\* destinations was traced
C6_Witness ==
    /\ TraceEnded
    /\ \E a \in OrdinaryEntered :
         /\ LimitedTotal(a) = 500 /\ Cardinality(LimitedDestinations(a)) = 4
         /\ a \in Keys(beneficiaries)


-----------------------------------------------------------------------------
(* C7 *)

\* the frame on top of the stack has just resolved the payouts of a disperse contract
DisperseResolved ==
    /\ At("return") /\ IsNonRoot(Top)
    /\ is_disperse_contract(Top.address)
    /\ get_transactions(Top.address, TRUE) # << >>

\* the recipients that are credited as beneficiaries by the contract X
CreditedRecipients(X) ==
    {rec \in PayoutRecipients(X) : rec \notin STOP_ADDRESS \cup {RETURN_ADDRESS}}

\* C7: Disperse dedup. Right after a disperse resolution every credited
\* recipient holds the sum of the logical payout records paid to it: a record
\* counts once however often the payout store returns it, and records that
\* differ in the hash, the recipient, the value or the timestamp count each.
C7_DisperseDedup ==
    DisperseResolved =>
        \A rec \in CreditedRecipients(Top.address) :
            /\ rec \in Keys(benH[Top.beneficiaries])
            /\ benH[Top.beneficiaries][rec] = PayoutSum(Top.address, rec)

\* the payout store returned one record twice, and two records that differ in
\* the timestamp only, all paid to one credited recipient
C7_Witness ==
    /\ DisperseResolved
    /\ \E i, j \in 1..Len(payouts) :
         /\ i < j /\ payouts[i] = payouts[j]
         /\ payouts[i].to \in CreditedRecipients(Top.address)
         /\ <<payouts[i].txHash, payouts[i].to, payouts[i].value, payouts[i].timeStamp>>
               \in LogicalPayouts(Top.address)
         /\ \E k \in 1..Len(payouts) :
              /\ payouts[k] = [payouts[i] EXCEPT !.timeStamp = payouts[k].timeStamp]
              /\ payouts[k].timeStamp # payouts[i].timeStamp

-----------------------------------------------------------------------------
(* C8 *)

\* the root sends one transaction, to the disperse contract X
C8_RootPaysDisperse(X) ==
    /\ Len(RootOutgoing) = 1 /\ RootOutgoing[1].to = X
    /\ is_disperse_contract(X)
    /\ ~IsStop(Lower(root)) /\ ~IsReturn(Lower(root))

\* C8: when the root sends one transaction to a disperse contract X, the trace
\* ends with beneficiaries = the payout sums of the credited recipients,
\* returned_amounts = the payout sum of the return address, and
\* intermediaries[X] = the total of both; records of other hashes are ignored.
C8_DisperseScenario ==
    TraceEnded =>
        \A X \in DisperseContracts :
            C8_RootPaysDisperse(X) =>
                /\ Keys(beneficiaries) = CreditedRecipients(X)
                /\ \A rec \in CreditedRecipients(X) : beneficiaries[rec] = PayoutSum(X, rec)
                /\ Get(returned_amounts, RETURN_ADDRESS) = PayoutSum(X, RETURN_ADDRESS)
                /\ Keys(returned_amounts) \subseteq {RETURN_ADDRESS}
                /\ Keys(intermediaries) = {X}
                /\ intermediaries[X] = PayoutSum(X, RETURN_ADDRESS)
                      + SumSet(CreditedRecipients(X),
                               [rec \in CreditedRecipients(X) |-> PayoutSum(X, rec)])

\* the root paid x 1000 and x paid c 600 and the return address 400
C8_Witness ==
    /\ TraceEnded
    /\ C8_RootPaysDisperse("x")
    /\ beneficiaries = ("c" :> 600)
    /\ returned_amounts = (RETURN_ADDRESS :> 400)
    /\ intermediaries = ("x" :> 1000)

-----------------------------------------------------------------------------
(* C9 *)

C9_Disjoint == Done => Keys(beneficiaries) \cap Keys(intermediaries) = {}

\* the step of the reconciler
C9_ReconcileStep ==
    (pc = "reconcile" /\ pc' = "done") =>
        /\ Keys(beneficiaries') = Keys(beneficiaries) \ Keys(intermediaries)
        /\ \A k \in Keys(beneficiaries') : beneficiaries'[k] = beneficiaries[k]
        /\ intermediaries' = intermediaries

\* C9: Reconciler. After find_beneficiaries no account is a key of both
\* beneficiaries and intermediaries: the accounts in both are deleted from
\* beneficiaries, intermediaries and the other beneficiaries stay as they were.
C9_Reconciler == []C9_Disjoint /\ [][C9_ReconcileStep]_vars

\* the trace has ended with an account in both ledgers and another in
\* beneficiaries only
C9_Witness ==
    /\ TraceEnded
    /\ Keys(beneficiaries) \cap Keys(intermediaries) # {}
    /\ Keys(beneficiaries) \ Keys(intermediaries) # {}

-----------------------------------------------------------------------------
(* C10 *)

\* C10: Cycle safety. Every account, the root included, is entered as a
\* trace_flow node at most once in a run.
C10_EnteredOnce ==
    \A i, j \in 1..Len(entered) : i # j => entered[i] # entered[j]

-----------------------------------------------------------------------------
(* C11 *)

\* a step that makes a recursive call of trace_flow
RecursiveCall == stack # << >> /\ Len(stack') = Len(stack) + 1

\* the callee's account was not in the caller's visited set and is in it
\* now, and caller and callee hold the one visited set
C11_CallAddsUnvisited ==
    RecursiveCall =>
        LET caller == Top
            callee == stack'[Len(stack')]
        IN /\ callee.address \notin visH[caller.visited]
           /\ callee.address \in visH'[caller.visited]
           /\ callee.visited = caller.visited

\* the accounts some transaction of the store pays
PaidAccounts == {Lower(txs[i].to) : i \in 1..Len(txs)}

\* the recursion is never deeper than the root's frame and one frame for
\* each account that is paid
C11_DepthBounded == Len(stack) <= 1 + Cardinality(PaidAccounts)

\* trace_flow is left by an exception only for an unparsable value or a
\* failed lookup
C11_RaisesOnlyOnFaults ==
    (pc = "raised" /\ exc # "ValueError") =>
        \/ \E i \in 1..Len(txs) : ~IsDecimal(txs[i].value)
        \/ get_code_raises

\* the frames past their prologue all hold one visited set
C11_OneVisitedSet ==
    \A i, j \in 1..Len(stack) :
        (stack[i].pc # "call" /\ stack[j].pc # "call") => stack[i].visited = stack[j].visited

\* the visited set of the running trace
TraceVisited ==
    IF stack # << >> /\ stack[1].pc # "call" THEN visH[stack[1].visited] ELSE {}

\* the statements a frame has left to execute, its calls not counted
FrameWork(f) ==
    CASE f.pc = "call" -> 3 * Len(txs) + 4
      [] f.pc = "enter" -> 3 * Len(txs) + 3
      [] f.pc \in {"root_wait", "int_wait"} -> 3 * Len(f.todo) + 3
      [] f.pc \in {"root_merge", "int_merge"} -> 3 * Len(f.todo) + 2
      [] f.pc \in {"root_loop", "int_loop"} -> 3 * Len(f.todo) + 1
      [] f.pc = "return" -> 0

\* a natural number that bounds the steps the trace has left: the work of
\* the frames, and that of a whole frame for each account not yet visited
Variant ==
    (3 * Len(txs) + 5) * Cardinality(PaidAccounts \ TraceVisited)
        + SumSet(1..Len(stack), [i \in 1..Len(stack) |-> FrameWork(stack[i])])

C11_VariantDecreases == (pc = "trace" /\ pc' = "trace") => Variant' < Variant

\* while the trace runs, the innermost frame is at a statement, never
\* waiting for a call that is not there
C11_TopRuns ==
    pc = "trace" => stack # << >> /\ Top.pc \notin {"root_wait", "int_wait"}

\* C11: Termination. Every top-level trace_flow call ends, on stores with
\* cycles, self-loops and mutual forwarding too: every recursive call first
\* adds an account that was not yet visited to the one shared visited set,
\* so the depth is bounded by the number of accounts, and every step of
\* the trace lowers a natural number.
C11_Termination ==
    /\ [][C11_CallAddsUnvisited /\ C11_VariantDecreases]_vars
    /\ [](C11_DepthBounded /\ C11_OneVisitedSet /\ C11_TopRuns /\ C11_RaisesOnlyOnFaults)

\* a trace has ended on a store in which the intermediaries b and c pay each
\* other, c pays itself and c pays the root, which was entered again
C11_Witness ==
    /\ Done
    /\ {"b", "c"} \subseteq Keys(intermediaries)
    /\ {<<"b", "c">>, <<"c", "b">>, <<"c", "c">>, <<"c", "a">>} \subseteq GraphEdges
    /\ Cardinality({i \in 1..Len(entered) : entered[i] = Lower(root)}) = 2

-----------------------------------------------------------------------------
(* C12 *)

\* the three ledgers find_beneficiaries returns
ReturnedLedgers ==
    [beneficiaries |-> beneficiaries, intermediaries |-> intermediaries,
     returned_amounts |-> returned_amounts]

\* a later call over the unchanged stores returns what the first call returned
C12_SameLedgers == (Done /\ call > 1) => first_call = <<ReturnedLedgers>>

\* a later call is running its trace, the earlier call's result still in res
InLaterTrace == call > 1 /\ pc \in {"start", "trace"}

\* the top-level frame starts on empty objects of its own, and no frame of a
\* later call holds a dictionary the earlier call returned
C12_FreshState ==
    /\ (Len(stack) = 1 /\ Top.pc = "enter") =>
          /\ Top.visited = Len(visH) /\ visH[Top.visited] = {}
          /\ Top.beneficiaries = Len(benH) /\ benH[Top.beneficiaries] = EmptyDict
          /\ Top.intermediaries = Len(intH) /\ intH[Top.intermediaries] = EmptyDict
          /\ Top.returned_amounts = Len(retH) /\ retH[Top.returned_amounts] = EmptyDict
          /\ Top.amount_received_map = Len(armH) /\ armH[Top.amount_received_map] = EmptyDict
    /\ InLaterTrace =>
          \A i \in 1..Len(stack) :
              stack[i].pc # "call" =>
                  /\ stack[i].beneficiaries # res.beneficiaries
                  /\ stack[i].intermediaries # res.intermediaries
                  /\ stack[i].returned_amounts # res.returned_amounts
                  /\ stack[i].amount_received_map # res.amount_received_map

\* no step of a later trace changes a dictionary the earlier call returned
C12_EarlierUntouched ==
    InLaterTrace =>
        /\ benH'[res.beneficiaries] = benH[res.beneficiaries]
        /\ intH'[res.intermediaries] = intH[res.intermediaries]
        /\ retH'[res.returned_amounts] = retH[res.returned_amounts]
        /\ armH'[res.amount_received_map] = armH[res.amount_received_map]

\* C12: Determinism/idempotence. Two consecutive top-level runs over the same
\* unchanged stores return the same beneficiaries, intermediaries and
\* returned_amounts; each run starts from fresh, empty trace state and sees
\* and changes nothing the run before recorded.
C12_Idempotent ==
    /\ [](C12_SameLedgers /\ C12_FreshState)
    /\ [][C12_EarlierUntouched]_vars

\* a second call has ended whose three ledgers are all non-empty
C12_Witness ==
    /\ Done /\ call = 2
    /\ beneficiaries # EmptyDict /\ intermediaries # EmptyDict /\ returned_amounts # EmptyDict
    /\ first_call = <<ReturnedLedgers>>

-----------------------------------------------------------------------------
(* C13 *)

\* some transaction or payout record of the stores carries a value that is
\* no decimal numeral
SomeValueUnparsable ==
    \/ \E i \in 1..Len(txs) : ~IsDecimal(txs[i].value)
    \/ \E i \in 1..Len(payouts) : ~IsDecimal(payouts[i].value)

\* C13: MalformedAmount. With a transaction or payout record whose value is
\* no decimal numeral in the stores, the trace still completes without
\* raising: the value counts as 0 wherever it is read.
C13_MalformedNeverRaises ==
    SomeValueUnparsable => exc # "InvalidOperation"

-----------------------------------------------------------------------------
(* C14 *)

\* the frame of an ordinary account that is past its balance-limiting step
PastLimiting(f) == IsOrdinary(f) /\ f.pc \notin {"call", "enter"}

\* the outgoing transactions of addr_l whose timeStamp is missing or unparsable
UntimedOutgoing(addr_l) ==
    {tx \in Range(get_transactions(addr_l, FALSE)) : parse_iso(tx.timeStamp) = << >>}

\* C14: MissingTimestamp. Every outgoing transaction of an ordinary account
\* whose timestamp is missing or unparsable is among the candidates of the
\* balance-limiting step, whatever the earliest incoming timestamp is.
C14_UntimedIsCandidate ==
    \A i \in 1..Len(stack) :
        PastLimiting(stack[i]) =>
            UntimedOutgoing(stack[i].address) \subseteq Range(outgoing_after(stack[i].address))

-----------------------------------------------------------------------------
(* C15 *)

\* one of the lookups of the run fails
SomeLookupFails == rpc.get_code = "fails" \/ rpc.getsourcecode = "fails"

\* C15: LookupFailure. When the bytecode lookup or the verified-source lookup
\* fails, is_disperse_contract answers false without raising: the trace
\* never ends in an exception, and no account is resolved as a disperse
\* contract.
C15_LookupFailureTolerated ==
    SomeLookupFails =>
        /\ pc # "raised"
        /\ Done => Keys(returned_amounts) = {}

-----------------------------------------------------------------------------
(* C16 *)

\* no transaction of the store is sent from the protocol address
NothingSentByRoot == \A i \in 1..Len(txs) : Lower(txs[i].from) # Lower(root)

\* no trace was started, no ledger exists and no output file was written
NothingProduced ==
    /\ stack = << >> /\ entered = << >>
    /\ benH = << >> /\ intH = << >> /\ retH = << >> /\ armH = << >> /\ visH = << >>
    /\ res = [beneficiaries |-> 0, intermediaries |-> 0, returned_amounts |-> 0,
              amount_received_map |-> 0]
    /\ \A name \in DOMAIN files : files[name] = << >>

\* the only step of such a call is the one that raises ValueError
C16_RaisesFirst ==
    (NothingSentByRoot /\ pc = "start") => (pc' = "raised" /\ exc' = "ValueError")

-----------------------------------------------------------------------------
(* C17 *)

\* the frame of a non-root account with incoming and no outgoing
\* transactions, classified and about to return
ReturningSink(f) ==
    /\ f.pc = "return" /\ IsNonRoot(f)
    /\ get_transactions(f.address, TRUE) # << >>
    /\ get_transactions(f.address, FALSE) = << >>

\* C17: an account with incoming and no outgoing transactions is recorded
\* as a final beneficiary with the amount it received on the edge by which
\* it was reached, and not as an intermediary, even when it is a disperse
\* contract.
C17_SinkIsBeneficiary ==
    \A i \in 1..Len(stack) :
        LET f == stack[i] IN
        ReturningSink(f) =>
            /\ f.address \in Keys(benH[f.beneficiaries])
            /\ f.address \notin Keys(intH[f.intermediaries])
            /\ benH[f.beneficiaries][f.address] >= f.actual_amount_received

-----------------------------------------------------------------------------
(* C19 *)

\* the frame of an intermediary that has merged the result of its call for
\* to_addr and not yet called for its next destination
JustMerged(f) == f.pc = "int_loop" /\ f.to_addr # ""

\* the accounts recorded as beneficiaries before the call for f.to_addr that
\* lie outside the subtree of f.to_addr
OutsideSubtree(f) == Keys(f.before) \ Descendants({f.to_addr})

\* C19: tracing one destination of an ordinary intermediary leaves the
\* beneficiaries entry of every account outside that destination's subtree
\* as it was before the call, once the child's result has been merged.
C19_SiblingsUntouched ==
    (stack # << >> /\ JustMerged(Top)) =>
        \A k \in OutsideSubtree(Top) :
            Get(benH[Top.beneficiaries], k) = Top.before[k]

-----------------------------------------------------------------------------
(* C20 *)

\* the candidates of the balance-limiting step of addr_l, in ascending order
Candidates(addr_l) == SortedByTime(outgoing_after(addr_l))

\* the total incoming value of addr_l
TotalIncoming(addr_l) ==
    LET incoming_txs == get_transactions(addr_l, TRUE)
    IN SumSet(1..Len(incoming_txs), [i \in 1..Len(incoming_txs) |-> incoming_txs[i].value])

\* the sum of the first n candidates
PrefixSum(c, n) == SumSet(1..n, [i \in 1..n |-> c[i].value])

\* l is the longest prefix of c whose running sum stays within cap
IsLongestPrefix(l, c, cap) ==
    LET n == Len(l) IN
    /\ n <= Len(c) /\ l = SubSeq(c, 1, n)
    /\ PrefixSum(c, n) <= cap
    /\ n < Len(c) => PrefixSum(c, n + 1) > cap

\* the limited outgoing set of every ordinary account past its limiting step
C20_LimitedIsPrefix ==
    \A i \in 1..Len(stack) :
        PastLimiting(stack[i]) =>
            LET a == stack[i].address IN
            /\ IsLongestPrefix(limited_outgoing(a), Candidates(a), TotalIncoming(a))
            /\ sum_values(limited_outgoing(a)) <= TotalIncoming(a)

\* the step that classifies an account as intermediary hands exactly that
\* prefix to the loop over its destinations
C20_LoopOverPrefix ==
    (At("enter") /\ Len(stack') = Len(stack) /\ stack'[Len(stack')].pc = "int_loop") =>
        IsLongestPrefix(stack'[Len(stack')].todo, Candidates(Top.address),
                        TotalIncoming(Top.address))

\* C20: Balance limiting. The limited outgoing set of an ordinary non-root
\* account is the longest prefix of its candidates, in ascending timestamp
\* order, whose running sum does not exceed the total incoming value: the
\* first transaction over the cap and all after it are left out, and the
\* limited total never exceeds the total incoming value.
C20_BalanceLimiting ==
    /\ []C20_LimitedIsPrefix
    /\ [][C20_LoopOverPrefix]_vars

\* an intermediary starts its loop with a limited set that leaves out a
\* transaction over the cap and, after it, one that would still fit
C20_Witness ==
    /\ stack # << >> /\ Top.pc = "int_loop" /\ Top.to_addr = ""
    /\ Top.todo = limited_outgoing(Top.address)
    /\ LET c == Candidates(Top.address)
           n == Len(Top.todo)
       IN \E j \in (n + 2)..Len(c) :
              PrefixSum(c, n) + c[j].value <= TotalIncoming(Top.address)

-----------------------------------------------------------------------------
(* C18 *)

\* the exact decimal sum, in tenths, of the amounts of the rows
ExactTotal(rows) == SumSet(1..Len(rows), [i \in 1..Len(rows) |-> rows[i].amount])

\* every amount cell of the files is a decimal numeral, as the trace writes them
AllAmountsParse ==
    \A name \in DOMAIN csv : \A i \in 1..Len(csv[name]) : IsDecimal(csv[name][i].amount)

-----------------------------------------------------------------------------
(* C21 *)

\* the step in which the root merges the map its child returned
RootMergeStep == At("root_merge") /\ Top.is_initial

\* the root merge changes an entry only if it was absent or zero, and then
\* by the child's value; an entry that was nonzero when the child was called
\* is the same after the merge as before the call or as the child left it
C21_MergeStep ==
    RootMergeStep =>
        LET b == benH[Top.beneficiaries]
            sub == benH[Top.sub_ben]
            merged == benH'[Top.beneficiaries]
        IN /\ Keys(merged) = Keys(b) \cup Keys(sub)
           /\ \A k \in Keys(merged) :
                 /\ merged[k] # Get(b, k) => (Get(b, k) = 0 /\ merged[k] = sub[k])
                 /\ Get(b, k) # 0 => merged[k] = b[k]
                 /\ (Top.sub_ben = Top.beneficiaries) => merged[k] = b[k]
           /\ \A i \in DOMAIN benH : i # Top.beneficiaries => benH'[i] = benH[i]

\* C21: Root merge. The root adds a child's value only for keys absent or
\* zero in its own map, so the root merge never increases an entry a second
\* time, whether the child returned a separate map or the root's own map.
C21_RootMerge == [][C21_MergeStep]_vars

\* the root has merged a separate map of one child and, later, its own map
\* returned by another child, and holds nonzero entries
C21_Witness ==
    /\ At("root_loop") /\ Top.is_initial
    /\ Top.sub_ben = Top.beneficiaries
    /\ Len(benH) >= 2
    /\ \E k \in Keys(benH[Top.beneficiaries]) : benH[Top.beneficiaries][k] > 0
    /\ Keys(Top.before) # Keys(benH[Top.beneficiaries])

-----------------------------------------------------------------------------
(* C22 *)

\* the step in which the account of the top frame is resolved as a disperse
\* contract
DisperseStep ==
    /\ At("enter") /\ IsNonRoot(Top) /\ is_disperse_contract(Top.address)
    /\ get_transactions(Top.address, TRUE) # << >>
    /\ IncomingParses(Top.address) /\ ~get_code_raises

\* the recipients the contract X pays as beneficiaries
PaidBeneficiaries(X) == PayoutRecipients(X) \ ({RETURN_ADDRESS} \cup STOP_ADDRESS)

\* r has a nonzero beneficiaries entry in some map of the trace
AlreadyCredited(r) == \E i \in DOMAIN benH : Get(benH[i], r) > 0

\* a disperse resolution replaces the entry of every recipient it pays
C22_OverwriteStep ==
    DisperseStep =>
        \A r \in PaidBeneficiaries(Top.address) :
            AlreadyCredited(r) =>
                /\ benH'[Top.beneficiaries][r] = PayoutSum(Top.address, r)
                /\ armH'[Top.amount_received_map][r] = PayoutSum(Top.address, r)

\* C22: Disperse overwrite. A disperse resolution that pays a recipient with
\* a nonzero beneficiaries entry from an earlier step replaces the entry with
\* the per-recipient payout sum, and sets amount_received_map to that sum.
C22_DisperseOverwrite == [][C22_OverwriteStep]_vars

\* a disperse contract has just replaced an entry its caller had recorded
\* with another amount
C22_Witness ==
    /\ Len(stack) >= 2 /\ Top.pc = "return" /\ is_disperse_contract(Top.address)
    /\ \E r \in PaidBeneficiaries(Top.address) :
          /\ Get(stack[Len(stack) - 1].before, r) > 0
          /\ stack[Len(stack) - 1].before[r] # PayoutSum(Top.address, r)
          /\ benH[Top.beneficiaries][r] = PayoutSum(Top.address, r)
          /\ armH[Top.amount_received_map][r] = PayoutSum(Top.address, r)

-----------------------------------------------------------------------------
(* C23 *)

\* the disperse contracts the trace has resolved
ResolvedContracts ==
    {X \in DisperseContracts :
        /\ X \in Range(entered) /\ X # Lower(root)
        /\ is_disperse_contract(X)
        /\ get_transactions(X, TRUE) # << >>}

\* C23: once a disperse resolution has set beneficiaries[r] to the payout
\* sum, no later step adds to it: at the end of the trace the entry of a
\* recipient paid by one disperse contract, and not itself an intermediary,
\* still equals that payout sum.
C23_PayoutSumKept ==
    TraceEnded =>
        \A X \in ResolvedContracts :
            \A r \in PaidBeneficiaries(X) \ Keys(intermediaries) :
                Get(beneficiaries, r) = PayoutSum(X, r)

-----------------------------------------------------------------------------
(* C24 *)

\* the accounts that two transactions sent by traced accounts pay
PaidTwice ==
    {c \in {Lower(txs[i].to) : i \in 1..Len(txs)} :
        \E i, j \in 1..Len(txs) :
            /\ i # j /\ Lower(txs[i].to) = c /\ Lower(txs[j].to) = c
            /\ Lower(txs[i].from) \in Range(entered)
            /\ Lower(txs[j].from) \in Range(entered)}

\* how often trace_flow was entered for account c in this call
TimesEntered(c) == Cardinality({k \in 1..Len(entered) : entered[k] = c})

\* C24: First-discovered path only. An account that two edges from traced
\* accounts lead to is entered once, through the first of them the
\* traversal reaches; every later edge to it is skipped.
C24_FirstPathOnly ==
    \A c \in PaidTwice : TimesEntered(c) <= 1

-----------------------------------------------------------------------------
(* C25 *)

\* a call over a store that differs from the first call's store at most in
\* transactions paying a stop address has returned
LaterCallEnded == Done /\ call > 1 /\ Len(first_call) = 1

\* C25: Stop-address non-interference. Two stores that differ only in
\* transactions whose destination is a stop address produce the same final
\* beneficiaries, intermediaries and returned amounts: the call over the
\* store without those payments returns what the call over the store with
\* them returned.
C25_StopNonInterference ==
    LaterCallEnded =>
        /\ beneficiaries = first_call[1].beneficiaries
        /\ intermediaries = first_call[1].intermediaries
        /\ returned_amounts = first_call[1].returned_amounts

-----------------------------------------------------------------------------
(* C26 *)

\* C26: Order independence. The ledgers of a trace depend only on the set of
\* transactions: after the store has returned two transactions of an account
\* with equal or both-missing timeStamps in the other order, the call returns
\* the beneficiaries, intermediaries and returned amounts the call before
\* the permutation returned.
C26_OrderIndependent ==
    LaterCallEnded => <<ReturnedLedgers>> = first_call

-----------------------------------------------------------------------------
(* C27 *)

\* compute_beneficiaries_for_protocol has read its result from the combined files
Computed == pc = "computed"

\* the returned_amounts list of the result
returned_list == files.combined_returned[1]

\* C27: Across a sequence of compute_beneficiaries_for_protocol calls in one
\* process and working directory, the returned amounts a call reports come
\* only from that call's own trace: a call whose trace returned nothing
\* reports an empty returned_amounts list.
C27_OwnReturnedOnly ==
    Computed => returned_list = returned_amounts

-----------------------------------------------------------------------------
(* C28 *)

\* the beneficiaries and intermediaries lists of the result
beneficiaries_list == files.combined_beneficiaries[1]
intermediaries_list == files.combined_intermediaries[1]

\* C28: In the result of compute_beneficiaries_for_protocol no address
\* appears both in the beneficiaries list and in the intermediaries list,
\* also after the trace output was combined with the rewards-campaign export.
C28_ListsDisjoint ==
    Computed => Keys(beneficiaries_list) \cap Keys(intermediaries_list) = {}

-----------------------------------------------------------------------------
(* C29 *)

\* the endpoint has answered a request whose address fails the validation
InvalidAnswered == ~IsAddress(strip(request)) /\ pc # "analyze"

\* C29: POST /analyze with a protocol address that is empty after trimming,
\* does not start with 0x, or is not exactly 42 characters long is answered
\* with HTTP status 400, and neither the live analysis nor the CSV fallback
\* is run for it.
C29_InvalidIs400 ==
    InvalidAnswered => (pc = "failed" /\ response.status_code = 400)

-----------------------------------------------------------------------------
(* C30 *)

\* the endpoint has answered from the CSV files after the live analysis failed
AnsweredFromFiles == pc = "responded" /\ response.message = "From CSV files"

\* the answer carries nothing of the files an earlier analysis left behind
NothingFromFiles ==
    /\ response.beneficiaries = << >> /\ response.intermediaries = << >>
    /\ response.summary.total_amount_distributed = 0
    /\ response.summary.total_amount_returned = 0

\* C30: When the live analysis of POST /analyze fails for the requested
\* address, the response does not report success with what an earlier
\* analysis wrote to the CSV files: a successful response describes the
\* address named in the request.
C30_NoStaleSuccess ==
    (AnsweredFromFiles /\ response.success) => NothingFromFiles

====
